---- MODULE Spec2Model ----
(***************************************************************************)
(* State-machine model of the AREA risk-analysis pipeline:                 *)
(*   src/agents/orchestrator.py                                            *)
(*   src/agents/domain_analyzer/domain_risk_analyzer_agent.py              *)
(*   src/agents/causality_analyzer/causality_risk_analyzer_agent.py        *)
(*   src/agents/heuristic_analyzer/heuristic_risk_analyzer_agent.py        *)
(*   src/agents/report_generator/report_generator_agent.py                 *)
(*                                                                         *)
(* Every stage is a linear graph of node functions over a state            *)
(* dictionary.  The dictionary key "errors" is declared                    *)
(* Annotated[List[str], add]: the graph runner hands a node the list it    *)
(* holds for that key and, when the node returns, replaces the held list   *)
(* by  add(held list, returned list).  All other keys hold the last value  *)
(* written.  The "messages" key is not modelled: no node reads it.         *)
(*                                                                         *)
(* Python values: a run identifier is a positive integer, NoRunId stands   *)
(* for every falsy run identifier (None, "" or an absent key).  A           *)
(* dictionary is a function from its set of keys.  The file system is      *)
(* reliable (mkdir and open-for-write succeed); the text-generation        *)
(* service, the Prolog runtime and the HTML renderer may fail.             *)
(***************************************************************************)
EXTENDS Integers, Sequences, FiniteSets, TLC

\* ------------------------------------------------------------------------
\* Bounds
\* ------------------------------------------------------------------------
\* number of distinct run identifiers an input document may carry, and
\* number of distinct identifiers uuid4 may mint
NumRunIds == 2

NoRunId == 0
InputRunIds == 1..NumRunIds
MintedRunIds == (NumRunIds + 1)..(2 * NumRunIds)

NoneVal == "None"
EmptyDict == [k \in {} |-> NoneVal]
Timestamps == {"20260101_120000"}
Languages == {"en", "it"}

\* ------------------------------------------------------------------------
\* Python dict / list helpers
\* ------------------------------------------------------------------------
Range(s) == {s[i] : i \in 1..Len(s)}

\* d[k] = v
Put(d, k, v) == [x \in (DOMAIN d) \cup {k} |-> IF x = k THEN v ELSE d[x]]

\* d.update(u)
Update(d, u) == [x \in (DOMAIN d) \cup (DOMAIN u) |-> IF x \in DOMAIN u THEN u[x] ELSE d[x]]

\* d.get("run_id"), falsy values collapsed to NoRunId
GetRunId(d) == IF "run_id" \in DOMAIN d THEN d["run_id"] ELSE NoRunId

\* if msg not in errs: errs.append(msg)
AppendIfAbsent(errs, msg) == IF msg \in Range(errs) THEN errs ELSE Append(errs, msg)

NoDuplicates(s) == \A i, j \in 1..Len(s) : s[i] = s[j] => i = j

\* ------------------------------------------------------------------------
\* Stages and their graphs
\* ------------------------------------------------------------------------
Stages == <<"domain", "causality", "heuristic", "report">>
StageSet == Range(Stages)

DomainNodes == <<"load_file", "validate", "analyze", "save">>
CausalityNodes == <<"Load", "Validate", "Analyze", "Save">>
HeuristicNodes == <<"Load", "GeneratePrologFacts", "InitializeProlog", "ExecuteHeuristicAnalysis", "Save">>
ReportNodes == <<"Load", "GenerateHTMLReport", "Save">>

NodesOf(st) ==
  CASE st = "domain" -> DomainNodes
    [] st = "causality" -> CausalityNodes
    [] st = "heuristic" -> HeuristicNodes
    [] st = "report" -> ReportNodes

IndexOf(seq, x) == CHOOSE i \in 1..Len(seq) : seq[i] = x

\* the Persist node of a stage graph: its last node
PersistNode(st) == NodesOf(st)[Len(NodesOf(st))]

\* variant: an edge leads from the first node to the third
NextNodeSkipsSecond(st, n) ==
  LET ns == NodesOf(st)
      i == IndexOf(ns, n)
  IN IF i = Len(ns) THEN "end" ELSE IF i = 1 THEN ns[3] ELSE ns[i + 1]

\* the node the graph runs after node n, "end" after the last one
NextNode(st, n) ==
  LET ns == NodesOf(st)
      i == IndexOf(ns, n)
  IN IF i = Len(ns) THEN "end" ELSE ns[i + 1]

\* ------------------------------------------------------------------------
\* Messages
\* ------------------------------------------------------------------------
MsgFileNotFound == "[DOMAIN][FATAL] load_questionnaire: file_not_found"
MsgInvalidJson == "[DOMAIN][FATAL] load_questionnaire: invalid_json"
MsgMissingQuestionnaire == "Missing questionnaire"
MsgMissingMetadata == "Missing field: metadata"
MsgMissingResponses == "Missing field: responses"
MsgNoQuestionnaire == "analyze_responses: no_questionnaire"
MsgDomainValidation == "[DOMAIN][FATAL] validation_error"
MsgDomainLlm == "[DOMAIN][FATAL] llm_error"
MsgDomainNoRunId == "Missing run_id in state; ensure the flow starts from domain analyzer which creates run_id"
MsgNoAnalysisInitial == "No analysis data present in initial state"
MsgNoAnalysisValidate == "No analysis data present to validate"
MsgRisksMissing == "Domain k missing 'risks' list"
MsgLlm == "llm_error"
MsgNoRunId == "Missing run_id in state; run must start from domain analyzer"
MsgFactsFailed == "Prolog facts generation failed"
MsgPrologInit == "Prolog initialization failed"
MsgPrologUnavailable == "Prolog instance not available"
MsgHeuristicFailed == "Heuristic analysis failed"
MsgHeuristicSave == "Save failed: Missing run_id in state; run must start from domain analyzer"
MsgReportMissing == "Missing analysis or heuristic data in initial state"
MsgReportSave == "Metadata save failed: Missing run_id in state; run must start from domain analyzer"

\* ------------------------------------------------------------------------
\* Inputs
\* ------------------------------------------------------------------------
\* metadata of an input document
InputMetas ==
  {EmptyDict} \cup {[language |-> l] : l \in Languages}
    \cup {[run_id |-> r] : r \in InputRunIds \cup {NoRunId}}
    \cup {[run_id |-> r, language |-> "it"] : r \in InputRunIds}

\* the empty questionnaire {}
EmptyQuestionnaire == [nonempty |-> FALSE, has_metadata |-> FALSE, has_responses |-> FALSE, metadata |-> EmptyDict]

\* parsed JSON objects of the answers file
Questionnaires ==
  {EmptyQuestionnaire}
    \cup {[nonempty |-> TRUE, has_metadata |-> FALSE, has_responses |-> r, metadata |-> EmptyDict] : r \in BOOLEAN}
    \cup {[nonempty |-> TRUE, has_metadata |-> TRUE, has_responses |-> r, metadata |-> m] : r \in BOOLEAN, m \in InputMetas}

\* the answers file: missing, not JSON, a JSON value that is not an object, or
\* an object; absolute: the file is named by an absolute path on the command
\* line (which matters for a missing file only)
InputFiles ==
  {[status |-> "missing", content |-> EmptyQuestionnaire, absolute |-> a] : a \in BOOLEAN}
    \cup {[status |-> s, content |-> EmptyQuestionnaire, absolute |-> FALSE] :
             s \in {"invalid_json", "not_object"}}
    \cup {[status |-> "ok", content |-> q, absolute |-> FALSE] : q \in Questionnaires}

\* the input file of a standalone causality, heuristic or report run
StageInputFiles ==
  {[status |-> s, content |-> EmptyQuestionnaire, absolute |-> FALSE] :
     s \in {"missing", "invalid_json", "ok"}}

\* the risk inventory, abstracted: None, {}, a malformed mapping, the domain
\* stage's flat inventory, the causality stage's nested inventory
AnalysisVals == {NoneVal, "empty", "malformed", "domain_inventory", "causality_inventory"}

HeuristicVals == {NoneVal, "empty", "result"}

\* outcomes of one call to the text-generation service
DomainLlmOutcomes == {"ok", "ok_empty", "invalid", "exception"}
CausalityLlmOutcomes == {"ok", "invalid", "exception"}
SummaryOutcomes == {"ok", "exception"}
\* outcomes of loading the rules and asserting the facts, and of rendering
PrologOutcomes == {"ok", "fail"}
RenderOutcomes == {"ok", "fail"}

MsgConversion == "'entity'"

\* ------------------------------------------------------------------------
\* State
\* ------------------------------------------------------------------------
VARIABLES
  entry,      \* the program that was started: "orchestrator" or a stage run standalone
  file,       \* the input file of the program
  seed,       \* what a standalone causality/heuristic/report run reads from its input file
  orch_pc,    \* orchestrator position: "start", a stage, "END", "raised", "exited"
  orch,       \* OrchestratorState: domain_state, causality_state, heuristic_state, report_state
  stage,      \* the stage graph being executed, "none" when no graph runs
  pc,         \* the node the graph runs next; "end" when it returned, "raised" when a node raised
  ctx,        \* the graph's state dictionary
  invoked,    \* the stage graphs invoked so far, in order
  executed,   \* the nodes of the current graph that have returned or raised, in order
  llm_calls,  \* calls made to the text-generation service, per stage
  llm_failures, \* calls to the text-generation service that failed, per stage
  files,      \* persisted stage artifacts, by path
  reports,    \* rendered HTML reports, by path
  exit_code   \* process exit code, "none" while running

vars == <<entry, file, seed, orch_pc, orch, stage, pc, ctx, invoked, executed, llm_calls, llm_failures, files, reports, exit_code>>

\* a state dictionary with every key of the four state schemas
State(metadata, questionnaire, analysis, heuristic, errors) ==
  [metadata |-> metadata, questionnaire |-> questionnaire, analysis |-> analysis,
   heuristic |-> heuristic, prolog_facts |-> "none", prolog |-> NoneVal,
   html_path |-> <<>>, errors |-> errors]

\* what a node function sees: the dictionary, and whether its "errors" entry
\* still is the very list the graph holds (alias) or a list the node created
Local(c) ==
  [metadata |-> c.metadata, questionnaire |-> c.questionnaire, analysis |-> c.analysis,
   heuristic |-> c.heuristic, prolog_facts |-> c.prolog_facts, prolog |-> c.prolog,
   html_path |-> c.html_path, errors |-> c.errors, alias |-> TRUE]

\* what a node function does: the dictionary it leaves, whether it raised,
\* its calls to the text-generation service, the files it wrote
Returns(s) == [st |-> s, raised |-> FALSE, llm |-> 0, llm_failed |-> 0, writes |-> {}, html |-> {}]
Raises(s) == [st |-> s, raised |-> TRUE, llm |-> 0, llm_failed |-> 0, writes |-> {}, html |-> {}]
\* one call to the text-generation service, answered / failed with an exception
Calls(r) == [r EXCEPT !.llm = 1]
CallFails(r) == [r EXCEPT !.llm = 1, !.llm_failed = 1]
Writes(r, path, content) == [r EXCEPT !.writes = {[path |-> path, content |-> content]}]

\* ------------------------------------------------------------------------
\* The graph runner
\* ------------------------------------------------------------------------
\* operator.add on lists
add(a, b) == a \o b

\* the runner's merge of a node's returned dictionary into the graph state:
\* last value for every key, add(held, returned) for "errors".  A node that
\* appended in place to the held list returns that list itself.
MergeErrors(held, s) == add(IF s.alias THEN s.errors ELSE held, s.errors)

ApplyWrites(c, s) ==
  [metadata |-> s.metadata, questionnaire |-> s.questionnaire, analysis |-> s.analysis,
   heuristic |-> s.heuristic, prolog_facts |-> s.prolog_facts, prolog |-> s.prolog,
   html_path |-> s.html_path, errors |-> MergeErrors(c.errors, s)]

\* graph.invoke(input): the input is written through the same reducers,
\* the held error list starting empty
GraphInput(input) == [input EXCEPT !.errors = add(<<>>, input.errors)]

\* the file-name stem of a stage's artifact
ArtifactKind(st) ==
  CASE st = "domain" -> "domain_analysis"
    [] st = "causality" -> "causality_analysis"
    [] st = "heuristic" -> "heuristic_analysis"
    [] st = "report" -> "report_metadata"

\* ------------------------------------------------------------------------
\* Domain stage nodes
\* ------------------------------------------------------------------------
\* variant: the run identifier is minted before the file is opened
domain_node_load_mints_first(state, f, uuid) ==
  CASE f.status = "ok" ->
         LET q == f.content
             meta == IF q.has_metadata THEN q.metadata ELSE EmptyDict
             run_id == IF GetRunId(meta) # NoRunId THEN GetRunId(meta) ELSE uuid
         IN Returns([state EXCEPT !.questionnaire = q,
                                  !.metadata = Put(state.metadata, "run_id", run_id)])
    [] f.status = "not_object" -> Raises(state)
    [] f.status = "missing" ->
         Returns([state EXCEPT !.metadata = Put(state.metadata, "run_id", uuid),
                               !.errors = AppendIfAbsent(@, MsgFileNotFound)])
    [] f.status = "invalid_json" ->
         Returns([state EXCEPT !.metadata = Put(state.metadata, "run_id", uuid),
                               !.errors = AppendIfAbsent(@, MsgInvalidJson)])

domain_node_load(state, f, uuid) ==
  CASE f.status = "ok" ->
         LET q == f.content
             meta == IF q.has_metadata THEN q.metadata ELSE EmptyDict
             run_id == IF GetRunId(meta) # NoRunId THEN GetRunId(meta) ELSE uuid
         IN Returns([state EXCEPT !.questionnaire = q,
                                  !.metadata = Put(state.metadata, "run_id", run_id)])
    [] f.status = "not_object" -> Raises(state)
    [] f.status = "missing" ->
         Returns([state EXCEPT !.errors = AppendIfAbsent(@, MsgFileNotFound)])
    [] f.status = "invalid_json" ->
         Returns([state EXCEPT !.errors = AppendIfAbsent(@, MsgInvalidJson)])

\* variant: the metadata of the questionnaire replaces the state's metadata
\* without carrying the run identifier over
domain_node_validate_drops_run_id(state) ==
  LET data == state.questionnaire
  IN CASE ~data.nonempty ->
            Returns([state EXCEPT !.errors = AppendIfAbsent(@, MsgMissingQuestionnaire)])
       [] data.nonempty /\ ~data.has_metadata ->
            Returns([state EXCEPT !.errors = AppendIfAbsent(@, MsgMissingMetadata)])
       [] data.nonempty /\ data.has_metadata /\ ~data.has_responses ->
            Returns([state EXCEPT !.errors = AppendIfAbsent(@, MsgMissingResponses)])
       [] OTHER -> Returns([state EXCEPT !.metadata = data.metadata])

domain_node_validate(state) ==
  LET data == state.questionnaire
      existing_run == GetRunId(state.metadata)
  IN CASE ~data.nonempty ->
            Returns([state EXCEPT !.errors = AppendIfAbsent(@, MsgMissingQuestionnaire)])
       [] data.nonempty /\ ~data.has_metadata ->
            Returns([state EXCEPT !.errors = AppendIfAbsent(@, MsgMissingMetadata)])
       [] data.nonempty /\ data.has_metadata /\ ~data.has_responses ->
            Returns([state EXCEPT !.errors = AppendIfAbsent(@, MsgMissingResponses)])
       [] OTHER ->
            Returns([state EXCEPT !.metadata =
                       IF existing_run # NoRunId /\ GetRunId(data.metadata) = NoRunId
                       THEN Put(data.metadata, "run_id", existing_run)
                       ELSE data.metadata])

domain_node_analyze(state, outcome) ==
  IF ~state.questionnaire.nonempty
  THEN Returns([state EXCEPT !.errors = Append(@, MsgNoQuestionnaire)])
  ELSE CASE outcome = "ok" -> Calls(Returns([state EXCEPT !.analysis = "domain_inventory"]))
         [] outcome = "ok_empty" -> Calls(Returns([state EXCEPT !.analysis = "empty"]))
         [] outcome = "invalid" ->
              Calls(Returns([state EXCEPT !.errors = AppendIfAbsent(@, MsgDomainValidation)]))
         [] outcome = "exception" ->
              CallFails(Returns([state EXCEPT !.errors = AppendIfAbsent(@, MsgDomainLlm)]))

\* the artifact _save_output writes when a run identifier is present
domain_save_output(state, ts) ==
  [metadata |-> Update(state.metadata,
                  [timestamp |-> ts, analysis_current_step |-> "domain_evaluation",
                   analysis_next_step |-> "causality_evaluation", errors |-> state.errors]),
   analysis |-> state.analysis]

domain_node_save(state, ts) ==
  LET run_id == GetRunId(state.metadata)
  IN IF run_id = NoRunId
     THEN Returns([state EXCEPT !.errors = AppendIfAbsent(@, MsgDomainNoRunId)])
     ELSE Writes(Returns(state), <<ArtifactKind("domain"), run_id>>, domain_save_output(state, ts))

\* ------------------------------------------------------------------------
\* Causality stage nodes
\* ------------------------------------------------------------------------
causality_node_load(state) ==
  LET s0 == [state EXCEPT !.errors = <<>>, !.alias = FALSE]
  IN IF s0.analysis = NoneVal
     THEN Returns([s0 EXCEPT !.errors = AppendIfAbsent(@, MsgNoAnalysisInitial)])
     ELSE Returns(s0)

causality_node_validate(state) ==
  CASE state.analysis = NoneVal ->
         Returns([state EXCEPT !.errors = AppendIfAbsent(@, MsgNoAnalysisValidate)])
    [] state.analysis = "malformed" ->
         Returns([state EXCEPT !.errors = Append(@, MsgRisksMissing)])
    [] OTHER -> Returns(state)

\* variant: a failed call is logged only
causality_node_analyze_swallows(state, outcome) ==
  CASE outcome = "ok" -> Calls(Returns([state EXCEPT !.analysis = "causality_inventory"]))
    [] outcome = "invalid" -> Calls(Returns([state EXCEPT !.errors = Append(@, MsgConversion)]))
    [] outcome = "exception" -> CallFails(Returns(state))

\* variant: an answer that cannot be converted is stored as it came
causality_node_analyze_keeps_invalid(state, outcome) ==
  CASE outcome = "ok" -> Calls(Returns([state EXCEPT !.analysis = "causality_inventory"]))
    [] outcome = "invalid" ->
         Calls(Returns([state EXCEPT !.analysis = "malformed", !.errors = Append(@, MsgConversion)]))
    [] outcome = "exception" -> CallFails(Returns([state EXCEPT !.errors = Append(@, MsgLlm)]))

causality_node_analyze(state, outcome) ==
  CASE outcome = "ok" -> Calls(Returns([state EXCEPT !.analysis = "causality_inventory"]))
    [] outcome = "invalid" -> Calls(Returns([state EXCEPT !.errors = Append(@, MsgConversion)]))
    [] outcome = "exception" -> CallFails(Returns([state EXCEPT !.errors = Append(@, MsgLlm)]))

\* variant: the artifact's metadata gets an empty error list
causality_save_output_drops_errors(state, ts) ==
  [metadata |-> Update(state.metadata,
                  [timestamp |-> ts, analysis_current_step |-> "causality_evaluation",
                   analysis_next_step |-> "heuristic_evaluation", errors |-> <<>>]),
   analysis |-> state.analysis]

causality_save_output(state, ts) ==
  [metadata |-> Update(state.metadata,
                  [timestamp |-> ts, analysis_current_step |-> "causality_evaluation",
                   analysis_next_step |-> "heuristic_evaluation", errors |-> state.errors]),
   analysis |-> state.analysis]

causality_node_save(state, ts) ==
  LET run_id == GetRunId(state.metadata)
  IN IF run_id = NoRunId
     THEN Returns([state EXCEPT !.errors = AppendIfAbsent(Append(@, MsgNoRunId), MsgNoRunId)])
     ELSE Writes(Returns(state), <<ArtifactKind("causality"), run_id>>, causality_save_output(state, ts))

\* ------------------------------------------------------------------------
\* Heuristic stage nodes
\* ------------------------------------------------------------------------
heuristic_node_load(state) ==
  LET s0 == [state EXCEPT !.errors = <<>>, !.alias = FALSE]
  IN IF s0.analysis = NoneVal
     THEN Returns([s0 EXCEPT !.errors = AppendIfAbsent(@, MsgNoAnalysisInitial)])
     ELSE Returns(s0)

\* iterating an inventory that is None, or whose entries are not mappings,
\* fails inside the node's try block
node_generate_prolog_facts(state) ==
  IF state.analysis \in {NoneVal, "malformed"}
  THEN Returns([state EXCEPT !.errors = AppendIfAbsent(@, MsgFactsFailed)])
  ELSE Returns([state EXCEPT !.prolog_facts = "facts"])

node_initialize_prolog(state, outcome) ==
  IF outcome = "ok"
  THEN Returns([state EXCEPT !.prolog = "engine"])
  ELSE Raises([state EXCEPT !.errors = AppendIfAbsent(@, MsgPrologInit)])

\* every query of the four sections runs in its own try block, so the
\* sections are always produced once an engine exists
node_execute_heuristic_analysis(state) ==
  IF state.prolog = NoneVal
  THEN Returns([state EXCEPT !.errors = AppendIfAbsent(@, MsgPrologUnavailable)])
  ELSE Returns([state EXCEPT !.heuristic = "result"])

\* variant: the next-step label does not name the report stage's step
heuristic_save_output_wrong_next(state, ts) ==
  [metadata |-> Update(state.metadata,
                  [timestamp |-> ts, analysis_current_step |-> "heuristic_evaluation",
                   analysis_next_step |-> "report", errors |-> state.errors]),
   analysis |-> state.analysis,
   heuristic |-> state.heuristic]

heuristic_save_output(state, ts) ==
  [metadata |-> Update(state.metadata,
                  [timestamp |-> ts, analysis_current_step |-> "heuristic_evaluation",
                   analysis_next_step |-> "report_generation", errors |-> state.errors]),
   analysis |-> state.analysis,
   heuristic |-> state.heuristic]

\* variant: the missing run identifier is not caught by the node
heuristic_node_save_raises(state, ts) ==
  LET run_id == GetRunId(state.metadata)
  IN IF run_id = NoRunId
     THEN Raises(state)
     ELSE Writes(Returns(state), <<ArtifactKind("heuristic"), run_id>>, heuristic_save_output(state, ts))

\* variant: the file name does not carry the run identifier
heuristic_node_save_one_file(state, ts) ==
  LET run_id == GetRunId(state.metadata)
  IN IF run_id = NoRunId
     THEN Returns([state EXCEPT !.errors = AppendIfAbsent(@, MsgHeuristicSave)])
     ELSE Writes(Returns(state), <<ArtifactKind("heuristic"), NoRunId>>, heuristic_save_output(state, ts))

heuristic_node_save(state, ts) ==
  LET run_id == GetRunId(state.metadata)
  IN IF run_id = NoRunId
     THEN Returns([state EXCEPT !.errors = AppendIfAbsent(@, MsgHeuristicSave)])
     ELSE Writes(Returns(state), <<ArtifactKind("heuristic"), run_id>>, heuristic_save_output(state, ts))

\* ------------------------------------------------------------------------
\* Report stage nodes
\* ------------------------------------------------------------------------
report_node_load(state) ==
  LET s0 == [state EXCEPT !.errors = <<>>, !.alias = FALSE]
  IN IF s0.analysis = NoneVal \/ s0.heuristic = NoneVal
     THEN Returns([s0 EXCEPT !.errors = AppendIfAbsent(@, MsgReportMissing)])
     ELSE Returns(s0)

\* one call to the service; a failed call yields the fixed fallback text
generate_executive_summary_text(outcome) ==
  IF outcome = "ok" THEN "summary" ELSE "Executive summary not available due to generation error."

\* the renderer: raises without a run identifier or when rendering fails,
\* otherwise writes the report and returns its path
generate_html_report(metadata, outcome) ==
  IF GetRunId(metadata) = NoRunId \/ outcome = "fail"
  THEN {}
  ELSE {<<"ai_risk_report", GetRunId(metadata)>>}

node_generate_html_report(state, summary, render) ==
  LET meta == Put(state.metadata, "executive_summary_text", generate_executive_summary_text(summary))
      html == generate_html_report(meta, render)
      s1 == [state EXCEPT !.metadata = meta]
      r1 == IF html = {}
            THEN Returns(s1)
            ELSE [Returns([s1 EXCEPT !.html_path = CHOOSE p \in html : TRUE]) EXCEPT !.html = html]
  IN IF summary = "ok" THEN Calls(r1) ELSE CallFails(r1)

report_save_output(state, ts) ==
  [metadata |-> Update(
      Put(state.metadata, "taxonomy_versions",
          IF "taxonomy_versions" \in DOMAIN state.metadata
          THEN state.metadata["taxonomy_versions"] ELSE "v0.1"),
      [timestamp |-> ts, analysis_current_step |-> "report_generation",
       analysis_next_step |-> NoneVal, html_report |-> state.html_path,
       errors |-> state.errors])]

report_node_save(state, ts) ==
  LET run_id == GetRunId(state.metadata)
  IN IF run_id = NoRunId
     THEN Returns([state EXCEPT !.errors = AppendIfAbsent(@, MsgReportSave)])
     ELSE Writes(Returns(state), <<ArtifactKind("report"), run_id>>, report_save_output(state, ts))

\* ------------------------------------------------------------------------
\* Initial state
\* ------------------------------------------------------------------------
\* the state dictionary run_orchestrator and the domain stage start from
InitialDomainState == State(EmptyDict, EmptyQuestionnaire, "empty", "empty", <<>>)

\* the state dictionaries the standalone stage programs build from their input file
StandaloneSeeds(e) ==
  CASE e = "causality" -> {State(m, EmptyQuestionnaire, a, "empty", <<>>) : m \in InputMetas, a \in AnalysisVals}
    [] e = "heuristic" -> {State(m, EmptyQuestionnaire, a, "empty", <<>>) : m \in InputMetas, a \in AnalysisVals}
    [] e = "report" -> {State(m, EmptyQuestionnaire, a, h, <<>>) : m \in InputMetas, a \in AnalysisVals, h \in HeuristicVals}
    [] OTHER -> {InitialDomainState}

Init ==
  /\ entry \in {"orchestrator"} \cup StageSet
  /\ file \in IF entry \in {"orchestrator", "domain"} THEN InputFiles ELSE StageInputFiles
  /\ seed \in IF file.status = "ok" THEN StandaloneSeeds(entry) ELSE {InitialDomainState}
  /\ orch_pc = "start"
  /\ orch = [domain_state |-> InitialDomainState]
  /\ stage = "none"
  /\ pc = "idle"
  /\ ctx = InitialDomainState
  /\ invoked = <<>>
  /\ executed = <<>>
  /\ llm_calls = [st \in StageSet |-> 0]
  /\ llm_failures = [st \in StageSet |-> 0]
  /\ files = [p \in {} |-> NoneVal]
  /\ reports = {}
  /\ exit_code = "none"

\* ------------------------------------------------------------------------
\* Running a node of the current graph
\* ------------------------------------------------------------------------
WriteAll(fs, writes) ==
  [p \in (DOMAIN fs) \cup {w.path : w \in writes} |->
     IF \E w \in writes : w.path = p
     THEN (CHOOSE w \in writes : w.path = p).content
     ELSE fs[p]]

\* the graph runs the current node: r is what the node function did
Run(r) ==
  /\ executed' = Append(executed, pc)
  /\ llm_calls' = [llm_calls EXCEPT ![stage] = @ + r.llm]
  /\ llm_failures' = [llm_failures EXCEPT ![stage] = @ + r.llm_failed]
  /\ files' = WriteAll(files, r.writes)
  /\ reports' = reports \cup r.html
  /\ pc' = IF r.raised THEN "raised" ELSE NextNode(stage, pc)
  /\ ctx' = IF r.raised
            THEN [ctx EXCEPT !.errors = IF r.st.alias THEN r.st.errors ELSE @]
            ELSE ApplyWrites(ctx, r.st)
  /\ UNCHANGED <<entry, file, seed, orch_pc, orch, stage, invoked, exit_code>>

domain_load ==
  /\ stage = "domain" /\ pc = "load_file"
  /\ \E uuid \in MintedRunIds : Run(domain_node_load(Local(ctx), file, uuid))

domain_validate ==
  /\ stage = "domain" /\ pc = "validate"
  /\ Run(domain_node_validate(Local(ctx)))

domain_analyze ==
  /\ stage = "domain" /\ pc = "analyze"
  /\ \E outcome \in DomainLlmOutcomes : Run(domain_node_analyze(Local(ctx), outcome))

domain_save ==
  /\ stage = "domain" /\ pc = "save"
  /\ \E ts \in Timestamps : Run(domain_node_save(Local(ctx), ts))

causality_load ==
  /\ stage = "causality" /\ pc = "Load"
  /\ Run(causality_node_load(Local(ctx)))

causality_validate ==
  /\ stage = "causality" /\ pc = "Validate"
  /\ Run(causality_node_validate(Local(ctx)))

causality_analyze ==
  /\ stage = "causality" /\ pc = "Analyze"
  /\ \E outcome \in CausalityLlmOutcomes : Run(causality_node_analyze(Local(ctx), outcome))

causality_save ==
  /\ stage = "causality" /\ pc = "Save"
  /\ \E ts \in Timestamps : Run(causality_node_save(Local(ctx), ts))

heuristic_load ==
  /\ stage = "heuristic" /\ pc = "Load"
  /\ Run(heuristic_node_load(Local(ctx)))

heuristic_generate_prolog_facts ==
  /\ stage = "heuristic" /\ pc = "GeneratePrologFacts"
  /\ Run(node_generate_prolog_facts(Local(ctx)))

heuristic_initialize_prolog ==
  /\ stage = "heuristic" /\ pc = "InitializeProlog"
  /\ \E outcome \in PrologOutcomes : Run(node_initialize_prolog(Local(ctx), outcome))

heuristic_execute ==
  /\ stage = "heuristic" /\ pc = "ExecuteHeuristicAnalysis"
  /\ Run(node_execute_heuristic_analysis(Local(ctx)))

heuristic_save ==
  /\ stage = "heuristic" /\ pc = "Save"
  /\ \E ts \in Timestamps : Run(heuristic_node_save(Local(ctx), ts))

report_load ==
  /\ stage = "report" /\ pc = "Load"
  /\ Run(report_node_load(Local(ctx)))

report_generate_html ==
  /\ stage = "report" /\ pc = "GenerateHTMLReport"
  /\ \E summary \in SummaryOutcomes, render \in RenderOutcomes :
       Run(node_generate_html_report(Local(ctx), summary, render))

report_save ==
  /\ stage = "report" /\ pc = "Save"
  /\ \E ts \in Timestamps : Run(report_node_save(Local(ctx), ts))

\* ------------------------------------------------------------------------
\* Orchestrator
\* ------------------------------------------------------------------------
\* graph.invoke(input) of stage st: the graph starts at its entry point
Invoke(st, input) ==
  /\ stage' = st
  /\ pc' = NodesOf(st)[1]
  /\ ctx' = GraphInput(input)
  /\ invoked' = Append(invoked, st)
  /\ executed' = <<>>

\* the rest of a step function once graph.invoke is over: a raise of the
\* graph propagates, a non-empty error list raises, otherwise the result is
\* stored under key and the orchestrator graph moves to its next node
\* variant: the failing stage's result is stored before the raise
StepResultStoresFailed(st, key, next) ==
  /\ stage = st /\ pc \in {"end", "raised"}
  /\ IF pc = "raised" \/ ctx.errors # <<>>
     THEN orch_pc' = "raised" /\ orch' = IF pc = "end" THEN Put(orch, key, ctx) ELSE orch
     ELSE orch_pc' = next /\ orch' = Put(orch, key, ctx)
  /\ stage' = "none" /\ pc' = "idle"
  /\ UNCHANGED <<entry, file, seed, ctx, invoked, executed, llm_calls, llm_failures, files, reports, exit_code>>

\* variant: the error list of the returned context is not looked at
StepResultIgnoresErrors(st, key, next) ==
  /\ stage = st /\ pc \in {"end", "raised"}
  /\ IF pc = "raised"
     THEN orch_pc' = "raised" /\ orch' = orch
     ELSE orch_pc' = next /\ orch' = Put(orch, key, ctx)
  /\ stage' = "none" /\ pc' = "idle"
  /\ UNCHANGED <<entry, file, seed, ctx, invoked, executed, llm_calls, llm_failures, files, reports, exit_code>>

StepResult(st, key, next) ==
  /\ stage = st /\ pc \in {"end", "raised"}
  /\ IF pc = "raised" \/ ctx.errors # <<>>
     THEN orch_pc' = "raised" /\ orch' = orch
     ELSE orch_pc' = next /\ orch' = Put(orch, key, ctx)
  /\ stage' = "none" /\ pc' = "idle"
  /\ UNCHANGED <<entry, file, seed, ctx, invoked, executed, llm_calls, llm_failures, files, reports, exit_code>>

\* _standaloneExecution up to orchestrator.invoke
orchestrator_start ==
  /\ entry = "orchestrator" /\ orch_pc = "start"
  /\ IF file.status = "missing"
     THEN orch_pc' = "exited" /\ exit_code' = "2"
     ELSE orch_pc' = "domain" /\ exit_code' = exit_code
  /\ UNCHANGED <<entry, file, seed, orch, stage, pc, ctx, invoked, executed, llm_calls, llm_failures, files, reports>>

domain_step ==
  /\ orch_pc = "domain" /\ stage = "none"
  /\ Invoke("domain", orch["domain_state"])
  /\ UNCHANGED <<entry, file, seed, orch_pc, orch, llm_calls, llm_failures, files, reports, exit_code>>

domain_step_result == orch_pc = "domain" /\ StepResult("domain", "domain_state", "causality")

causality_step ==
  /\ orch_pc = "causality" /\ stage = "none"
  /\ Invoke("causality",
            State(orch["domain_state"].metadata, orch["domain_state"].questionnaire,
                  orch["domain_state"].analysis, "empty", <<>>))
  /\ UNCHANGED <<entry, file, seed, orch_pc, orch, llm_calls, llm_failures, files, reports, exit_code>>

causality_step_result == orch_pc = "causality" /\ StepResult("causality", "causality_state", "heuristic")

\* variant: the heuristic stage is seeded with the domain stage's inventory
heuristic_step_from_domain ==
  /\ orch_pc = "heuristic" /\ stage = "none"
  /\ Invoke("heuristic",
            State(orch["causality_state"].metadata, EmptyQuestionnaire,
                  orch["domain_state"].analysis, "empty", <<>>))
  /\ UNCHANGED <<entry, file, seed, orch_pc, orch, llm_calls, llm_failures, files, reports, exit_code>>

heuristic_step ==
  /\ orch_pc = "heuristic" /\ stage = "none"
  /\ Invoke("heuristic",
            State(orch["causality_state"].metadata, EmptyQuestionnaire,
                  orch["causality_state"].analysis, "empty", <<>>))
  /\ UNCHANGED <<entry, file, seed, orch_pc, orch, llm_calls, llm_failures, files, reports, exit_code>>

heuristic_step_result == orch_pc = "heuristic" /\ StepResult("heuristic", "heuristic_state", "report")

report_step ==
  /\ orch_pc = "report" /\ stage = "none"
  /\ Invoke("report",
            State(orch["heuristic_state"].metadata, orch["causality_state"].questionnaire,
                  orch["heuristic_state"].analysis, orch["heuristic_state"].heuristic, <<>>))
  /\ UNCHANGED <<entry, file, seed, orch_pc, orch, llm_calls, llm_failures, files, reports, exit_code>>

report_step_result == orch_pc = "report" /\ StepResult("report", "report_state", "END")

\* _standaloneExecution after orchestrator.invoke: exit 0, or 1 on any exception
orchestrator_exit ==
  /\ entry = "orchestrator" /\ orch_pc \in {"END", "raised"}
  /\ exit_code' = IF orch_pc = "END" THEN "0" ELSE "1"
  /\ orch_pc' = "exited"
  /\ UNCHANGED <<entry, file, seed, orch, stage, pc, ctx, invoked, executed, llm_calls, llm_failures, files, reports>>

\* ------------------------------------------------------------------------
\* The stages run standalone (their __main__ blocks)
\* ------------------------------------------------------------------------
\* the domain stage checks a relative file name (or a run_id) with isfile
\* and hands an absolute path to the graph unchecked; the other stages check
\* the path and load the document before they build the graph
stage_main_start ==
  /\ entry \in StageSet /\ orch_pc = "start"
  /\ IF \/ file.status \in {"missing", "invalid_json"} /\ entry # "domain"
        \/ file.status = "missing" /\ entry = "domain" /\ ~file.absolute
     THEN /\ orch_pc' = "exited" /\ exit_code' = "2"
          /\ UNCHANGED <<stage, pc, ctx, invoked, executed>>
     ELSE /\ orch_pc' = "standalone" /\ exit_code' = exit_code
          /\ Invoke(entry, seed)
  /\ UNCHANGED <<entry, file, seed, orch, llm_calls, llm_failures, files, reports>>

\* after graph.invoke: exit 1 on a raise or on recorded errors, else 0; the
\* heuristic stage reads fields of most_critical_domain for its closing log
\* line, which raises when the engine reported none, and exits 1 then
stage_main_exit ==
  /\ entry \in StageSet /\ orch_pc = "standalone" /\ pc \in {"end", "raised"}
  /\ \E logged \in IF entry = "heuristic" THEN BOOLEAN ELSE {TRUE} :
       exit_code' = IF pc = "raised" \/ ctx.errors # <<>> \/ ~logged THEN "1" ELSE "0"
  /\ orch_pc' = "exited"
  /\ UNCHANGED <<entry, file, seed, orch, stage, pc, ctx, invoked, executed, llm_calls, llm_failures, files, reports>>

Next ==
  \/ orchestrator_start
  \/ domain_step \/ domain_step_result
  \/ causality_step \/ causality_step_result
  \/ heuristic_step \/ heuristic_step_result
  \/ report_step \/ report_step_result
  \/ orchestrator_exit
  \/ stage_main_start \/ stage_main_exit
  \/ domain_load \/ domain_validate \/ domain_analyze \/ domain_save
  \/ causality_load \/ causality_validate \/ causality_analyze \/ causality_save
  \/ heuristic_load \/ heuristic_generate_prolog_facts \/ heuristic_initialize_prolog
  \/ heuristic_execute \/ heuristic_save
  \/ report_load \/ report_generate_html \/ report_save

Spec == Init /\ [][Next]_vars

\* The interpreter runs the next statement of a program that has not ended,
\* and a call to the text-generation service returns or raises: some step
\* is taken whenever one is possible.
FairSpec == Spec /\ WF_vars(Next)

\* ========================================================================
\* The causality and heuristic stages on inventories
\* ========================================================================
\* The first specification keeps the inventory abstract.  The second one,
\* SpecInventory, runs the causality stage's Analyze node and the heuristic
\* stage's GeneratePrologFacts, InitializeProlog and ExecuteHeuristicAnalysis
\* nodes on inventories: ctx.analysis is a list of entries in the
\* dictionary's iteration order, ctx.prolog_facts the list of facts,
\* ctx.prolog the engine with the facts asserted, ctx.heuristic the result.
\*
\* A string that the code takes apart is a sequence of characters.  A value
\* that may be None is Null or Some(v).  A percentage is an integer number of
\* hundredths: 5000 is 50.0.

\* number of entries of an inventory with several keys
MaxKeys == 4
\* number of risks in the risk list of an inventory with one key
MaxRisks == 10

Null == [null |-> TRUE]
Some(v) == [null |-> FALSE, value |-> v]

\* d.get(k, default)
Get(d, k, default) == IF k \in DOMAIN d THEN d[k] ELSE default

\* s.split(sep)
RECURSIVE split(_, _)
split(s, sep) ==
  IF \A i \in 1..Len(s) : s[i] # sep
  THEN <<s>>
  ELSE LET i == CHOOSE k \in 1..Len(s) : s[k] = sep /\ \A j \in 1..(k - 1) : s[j] # sep
       IN <<SubSeq(s, 1, i - 1)>> \o split(SubSeq(s, i + 1, Len(s)), sep)

\* s.replace("\\", "\\\\").replace("'", "\\'")
RECURSIVE escape_prolog_string(_)
escape_prolog_string(s) ==
  IF s = <<>> THEN <<>>
  ELSE (IF Head(s) \in {"\\", "'"} THEN <<"\\", Head(s)>> ELSE <<Head(s)>>)
         \o escape_prolog_string(Tail(s))

\* the keys of the inventories, in the order the input document lists them
KeyOrder ==
  << <<"1", ".", "1">>, <<"a", "b", "c">>, <<"1", ".", "2">>, <<"2", ".", "1">>,
     <<"1", ".", "2", ".", "3">>, <<"3", ".", "1">>, <<"9", ".", "1">> >>

\* risks as the stages hand them on: with flat fields (the domain stage's
\* fields plus the service's causality fields), in the nested form the
\* causality stage builds (here without a timing value), without severity
\* and causality fields, and as the domain stage generates them; and as
\* an input file of the heuristic stage may hold them: nested with every
\* value, and nested or flat without an entity
Risks ==
  [high_ai |->
     [title |-> <<"t">>, explanation |-> "e", severity |-> "high", severity_rationale |-> "r",
      mitigation |-> "m", entity |-> "ai", entity_rationale |-> "r", intent |-> "intentional",
      intent_rationale |-> "r", timing |-> "post-deployment", timing_rationale |-> "r"],
   low_human |->
     [title |-> <<"'">>, explanation |-> "e", severity |-> "low", severity_rationale |-> "r",
      mitigation |-> "m", entity |-> "human", entity_rationale |-> "r", intent |-> "unintentional",
      intent_rationale |-> "r", timing |-> "pre-deployment", timing_rationale |-> "r"],
   nested |->
     [title |-> <<"t">>, severity |-> "medium",
      causality |-> [entity |-> [value |-> "human"], intent |-> [value |-> "intentional"],
                     timing |-> EmptyDict]],
   nested_high_ai |->
     [title |-> <<"t">>, severity |-> "high",
      causality |-> [entity |-> [value |-> "ai"], intent |-> [value |-> "intentional"],
                     timing |-> [value |-> "post-deployment"]]],
   nested_no_entity |->
     [title |-> <<"t">>, severity |-> "low",
      causality |-> [intent |-> [value |-> "intentional"],
                     timing |-> [value |-> "pre-deployment"]]],
   flat_no_entity |->
     [title |-> <<"t">>, severity |-> "low", intent |-> "intentional",
      timing |-> "pre-deployment"],
   bare |-> [title |-> <<"t">>, explanation |-> "e", mitigation |-> "m"],
   domain |-> [title |-> <<"t">>, explanation |-> "e", severity |-> "high", mitigation |-> "m"]]

\* an inventory entry: key, whether the value under the key is a mapping,
\* and the list under its "risks" key ([] when it has none)
Entry(key, risks) == [key |-> key, mapping |-> TRUE, risks |-> risks]

\* the inventories of the input documents:
\*  - one well-formed key with up to MaxRisks risks of three kinds,
\*  - up to MaxKeys of the keys of KeyOrder, in that order, each with one
\*    high-severity risk or with two risks of other severities,
\*  - one or two entries, at least one of them not a mapping,
\*  - four well-formed keys, each with one or two high-severity risks,
\*  - one well-formed key with a flat risk and the same risk nested
Inventories ==
  LET Repeat(x, n) == [i \in 1..n |-> x]
      RECURSIVE Ascending(_)
      Ascending(S) ==
        IF S = {} THEN <<>>
        ELSE LET m == CHOOSE x \in S : \A y \in S : x <= y
             IN <<m>> \o Ascending(S \ {m})
      Contents == {<<Risks.high_ai>>, <<Risks.bare, Risks.nested>>}
      OneKey ==
        {<<Entry(KeyOrder[4],
                 Repeat(Risks.high_ai, t[1]) \o Repeat(Risks.low_human, t[2])
                   \o Repeat(Risks.nested, t[3]))>> :
           t \in {u \in (0..MaxRisks) \X (0..MaxRisks) \X (0..MaxRisks) :
                    u[1] + u[2] + u[3] <= MaxRisks}}
      Chosen == {S \in SUBSET (1..Len(KeyOrder)) : Cardinality(S) <= MaxKeys}
      SeveralKeys ==
        UNION {{[i \in 1..Cardinality(S) |-> Entry(KeyOrder[Ascending(S)[i]], c[Ascending(S)[i]])] :
                  c \in [S -> Contents]} : S \in Chosen}
      NotAMapping(key) == [key |-> key, mapping |-> FALSE, risks |-> <<>>]
      Malformed ==
        {<<NotAMapping(KeyOrder[k])>> : k \in 1..3}
          \cup {<<Entry(KeyOrder[1], <<Risks.high_ai>>), NotAMapping(KeyOrder[k])>> : k \in 2..3}
          \cup {<<NotAMapping(KeyOrder[2]), Entry(KeyOrder[4], <<Risks.high_ai>>)>>}
      \* four of the well-formed keys, each with one or two high-severity risks
      Spread ==
        UNION {{[i \in 1..4 |-> Entry(KeyOrder[Ascending(S)[i]], Repeat(Risks.high_ai, n[Ascending(S)[i]]))] :
                  n \in [S -> {1, 2}]} :
               S \in {T \in SUBSET {1, 3, 4, 6, 7} : Cardinality(T) = 4 /\ 4 <= MaxKeys}}
      Twins ==
        {<<Entry(KeyOrder[4], <<Risks.high_ai, Risks.nested_high_ai>>)>>,
         <<Entry(KeyOrder[4], <<Risks.flat_no_entity, Risks.nested_no_entity>>)>>}
  IN OneKey \cup SeveralKeys \cup Malformed \cup Spread \cup Twins

\* ------------------------------------------------------------------------
\* Fact extraction
\* ------------------------------------------------------------------------
\* variant: every id is looked up in the catalog, without the fallback
extract_domain_name_catalog_only(domain_key) == <<"#">> \o split(domain_key, ".")[1]

\* domain_mapping.get(domain_key.split(".")[0], f"Domain {domain_key}"):
\* the catalog's text for an id is written <<"#">> \o id
extract_domain_name(domain_key) ==
  IF split(domain_key, ".")[1] \in {<<"1">>, <<"2">>, <<"3">>, <<"4">>, <<"5">>, <<"6">>, <<"7">>}
  THEN <<"#">> \o split(domain_key, ".")[1]
  ELSE <<"D", "o", "m", "a", "i", "n", " ">> \o domain_key

\* subdomain_mapping.get(full_key, f"Subdomain {full_key}")
extract_subdomain_name(domain_key, subdomain_key) ==
  LET full_key == domain_key \o <<".">> \o subdomain_key
      catalog ==
        {<<d, ".", n>> : d \in {"1"}, n \in {"1", "2", "3"}}
          \cup {<<d, ".", n>> : d \in {"2", "3", "5"}, n \in {"1", "2"}}
          \cup {<<d, ".", n>> : d \in {"4"}, n \in {"1", "2", "3"}}
          \cup {<<d, ".", n>> : d \in {"6", "7"}, n \in {"1", "2", "3", "4", "5", "6"}}
  IN IF full_key \in catalog
     THEN <<"#">> \o full_key
     ELSE <<"S", "u", "b", "d", "o", "m", "a", "i", "n", " ">> \o full_key

\* variant: the causality facts are emitted for nested risks only
risk_facts_nested_only(domain, subdomain, risk_id, risk) ==
  LET severity == Get(risk, "severity", "medium")
      causality == Get(risk, "causality", EmptyDict)
      id == [domain |-> domain, subdomain |-> subdomain, risk_id |-> risk_id]
      risk_fact == [pred |-> "risk", id |-> id,
                    title |-> escape_prolog_string(Get(risk, "title", <<>>)), severity |-> severity]
  IN IF "entity" \in DOMAIN causality
     THEN << risk_fact,
             [pred |-> "causality_entity", id |-> id,
              value |-> Get(Get(causality, "entity", EmptyDict), "value", "other")],
             [pred |-> "causality_intent", id |-> id,
              value |-> Get(Get(causality, "intent", EmptyDict), "value", "other")],
             [pred |-> "causality_timing", id |-> id,
              value |-> Get(Get(causality, "timing", EmptyDict), "value", "other")] >>
     ELSE <<risk_fact>>

\* variant: the ordinals count from 0 (enumerate without start=1)
risk_facts_zero_based(domain, subdomain, risk_id, risk) ==
  LET severity == Get(risk, "severity", "medium")
      causality == Get(risk, "causality", EmptyDict)
      nested == "entity" \in DOMAIN causality
      entity == IF nested THEN Get(Get(causality, "entity", EmptyDict), "value", "other")
                ELSE Get(risk, "entity", "other")
      intent == IF nested THEN Get(Get(causality, "intent", EmptyDict), "value", "other")
                ELSE Get(risk, "intent", "other")
      timing == IF nested THEN Get(Get(causality, "timing", EmptyDict), "value", "other")
                ELSE Get(risk, "timing", "other")
      id == [domain |-> domain, subdomain |-> subdomain, risk_id |-> risk_id - 1]
  IN << [pred |-> "risk", id |-> id,
         title |-> escape_prolog_string(Get(risk, "title", <<>>)), severity |-> severity],
        [pred |-> "causality_entity", id |-> id, value |-> entity],
        [pred |-> "causality_intent", id |-> id, value |-> intent],
        [pred |-> "causality_timing", id |-> id, value |-> timing] >>

\* the facts of one risk: lines 207-236, risk_id counting from 1
risk_facts(domain, subdomain, risk_id, risk) ==
  LET severity == Get(risk, "severity", "medium")
      causality == Get(risk, "causality", EmptyDict)
      nested == "entity" \in DOMAIN causality
      entity == IF nested THEN Get(Get(causality, "entity", EmptyDict), "value", "other")
                ELSE Get(risk, "entity", "other")
      intent == IF nested THEN Get(Get(causality, "intent", EmptyDict), "value", "other")
                ELSE Get(risk, "intent", "other")
      timing == IF nested THEN Get(Get(causality, "timing", EmptyDict), "value", "other")
                ELSE Get(risk, "timing", "other")
      id == [domain |-> domain, subdomain |-> subdomain, risk_id |-> risk_id]
  IN << [pred |-> "risk", id |-> id,
         title |-> escape_prolog_string(Get(risk, "title", <<>>)), severity |-> severity],
        [pred |-> "causality_entity", id |-> id, value |-> entity],
        [pred |-> "causality_intent", id |-> id, value |-> intent],
        [pred |-> "causality_timing", id |-> id, value |-> timing] >>

\* variant: a key with more than two parts is read by its first two parts
RECURSIVE extract_facts_first_two_parts(_, _, _, _, _)
extract_facts_first_two_parts(analysis, i, facts, domains_seen, subdomains_seen) ==
  IF i > Len(analysis) THEN facts
  ELSE
    LET parts == split(analysis[i].key, ".")
        risks == analysis[i].risks
    IN IF Len(parts) < 2
       THEN extract_facts_first_two_parts(analysis, i + 1, facts, domains_seen, subdomains_seen)
       ELSE
         LET domain == parts[1]
             subdomain == parts[2]
             subdomain_key == domain \o <<".">> \o subdomain
             domain_fact ==
               IF domain \in domains_seen THEN <<>>
               ELSE <<[pred |-> "domain", domain |-> domain,
                       name |-> escape_prolog_string(extract_domain_name(domain))]>>
             subdomain_fact ==
               IF subdomain_key \in subdomains_seen THEN <<>>
               ELSE <<[pred |-> "subdomain", domain |-> domain, subdomain |-> subdomain,
                       name |-> escape_prolog_string(extract_subdomain_name(domain, subdomain))]>>
             RECURSIVE per_risk(_)
             per_risk(k) ==
               IF k > Len(risks) THEN <<>>
               ELSE risk_facts(domain, subdomain, k, risks[k]) \o per_risk(k + 1)
         IN extract_facts_first_two_parts(analysis, i + 1,
                          facts \o domain_fact \o subdomain_fact \o per_risk(1),
                          domains_seen \cup {domain}, subdomains_seen \cup {subdomain_key})

\* the loop of lines 180-236 over analysis.items(), from entry i on, with
\* the facts and the seen sets built so far
RECURSIVE extract_facts(_, _, _, _, _)
extract_facts(analysis, i, facts, domains_seen, subdomains_seen) ==
  IF i > Len(analysis) THEN facts
  ELSE
    LET parts == split(analysis[i].key, ".")
        risks == analysis[i].risks
    IN IF Len(parts) # 2
       THEN extract_facts(analysis, i + 1, facts, domains_seen, subdomains_seen)
       ELSE
         LET domain == parts[1]
             subdomain == parts[2]
             subdomain_key == domain \o <<".">> \o subdomain
             domain_fact ==
               IF domain \in domains_seen THEN <<>>
               ELSE <<[pred |-> "domain", domain |-> domain,
                       name |-> escape_prolog_string(extract_domain_name(domain))]>>
             subdomain_fact ==
               IF subdomain_key \in subdomains_seen THEN <<>>
               ELSE <<[pred |-> "subdomain", domain |-> domain, subdomain |-> subdomain,
                       name |-> escape_prolog_string(extract_subdomain_name(domain, subdomain))]>>
             RECURSIVE per_risk(_)
             per_risk(k) ==
               IF k > Len(risks) THEN <<>>
               ELSE risk_facts(domain, subdomain, k, risks[k]) \o per_risk(k + 1)
         IN extract_facts(analysis, i + 1,
                          facts \o domain_fact \o subdomain_fact \o per_risk(1),
                          domains_seen \cup {domain}, subdomains_seen \cup {subdomain_key})

\* node_generate_prolog_facts on an inventory: content.get fails on a value
\* that is not a mapping, before the key is looked at; the failure leaves
\* prolog_facts as it was and records one message
generate_prolog_facts(state) ==
  IF \E i \in 1..Len(state.analysis) : ~state.analysis[i].mapping
  THEN Returns([state EXCEPT !.errors = AppendIfAbsent(@, MsgFactsFailed)])
  ELSE Returns([state EXCEPT !.prolog_facts = extract_facts(state.analysis, 1, <<>>, {}, {})])

\* ------------------------------------------------------------------------
\* The rules (rules.pl): counting predicates, percentages, rankings
\* ------------------------------------------------------------------------
\* a value a rule computes that the model does not look into
Opaque == Some("rules.pl")

\* the values of the four dimensions of a risk
Values ==
  [severity |-> {"low", "medium", "high"},
   entity |-> {"ai", "human", "other"},
   intent |-> {"intentional", "unintentional", "other"},
   timing |-> {"pre-deployment", "post-deployment", "other"}]

\* the (domain, subdomain, ordinal) triples of the risk facts whose severity,
\* entity, intent and timing are in the sets of want
risks_matching(db, want) ==
  LET has(pred, id, values) ==
        \E i \in 1..Len(db) : db[i].pred = pred /\ db[i].id = id /\ db[i].value \in values
  IN {db[i].id : i \in {k \in 1..Len(db) :
        /\ db[k].pred = "risk"
        /\ db[k].severity \in want.severity
        /\ has("causality_entity", db[k].id, want.entity)
        /\ has("causality_intent", db[k].id, want.intent)
        /\ has("causality_timing", db[k].id, want.timing)}}

\* total_risks(Count)
total_risks(db) == Cardinality({i \in 1..Len(db) : db[i].pred = "risk"})

\* risks_by_severity, risks_by_entity, risks_by_intent, risks_by_timing
risks_by(db, dimension, v) ==
  Cardinality({i \in 1..Len(db) :
     IF dimension = "severity"
     THEN db[i].pred = "risk" /\ db[i].severity = v
     ELSE db[i].pred = "causality_" \o dimension /\ db[i].value = v})

\* the domain ids of the domain facts
domains(db) == {db[i].domain : i \in {k \in 1..Len(db) : db[k].pred = "domain"}}

\* risks_in_domain_by_severity(D, S, C) for a severity (risks_in_domain for all)
risks_in_domain_by_severity(db, d, severities) ==
  Cardinality({i \in 1..Len(db) :
     db[i].pred = "risk" /\ db[i].id.domain = d /\ db[i].severity \in severities})

\* part / whole * 100 in hundredths, rounded to the nearest hundredth (no
\* tie occurs below 32 risks); no solution when the whole is zero
percentage(part, whole) ==
  IF whole = 0 THEN Null ELSE Some((2 * part * 10000 + whole) \div (2 * whole))

\* the orders in which critical_domain_ranked may rank the domains: by
\* high-severity count, highest first, equal counts in any order
critical_domain_rankings(db) ==
  LET n == Cardinality(domains(db))
      high(d) == risks_in_domain_by_severity(db, d, {"high"})
  IN {r \in [1..n -> domains(db)] :
        /\ \A i, j \in 1..n : r[i] = r[j] => i = j
        /\ \A i \in 1..(n - 1) : high(r[i]) >= high(r[i + 1])}

\* ------------------------------------------------------------------------
\* The four sections of the heuristic result
\* ------------------------------------------------------------------------
\* Every query sits in a try block of its own.  failed is the set of try
\* blocks, named by the key they fill, in which a query raises; a query
\* without solution makes [0] raise in its block.

\* the pattern counts of _run_pattern_analysis, by bucket
PatternNames ==
  [critical_patterns |->
     {"critical_ai_risks", "malicious_human_risks", "high_threat_attacks",
      "unintended_ai_failures", "human_error_risks", "intentional_ai_risks",
      "preventable_critical_ai_risks", "critical_human_errors", "low_priority_preventable"},
   moderate_patterns |->
     {"moderate_operational_risks", "moderate_ai_risks", "moderate_human_risks",
      "moderate_intentional_ai_risks", "moderate_human_intentional_risks"},
   prevention_patterns |->
     {"preventable_ai_risks", "preventable_human_risks", "preventable_intentional_threats"},
   low_patterns |-> {"low_operational_risks"}]

\* variant: the ranks 1 to 4 are queried
run_executive_summary_four_ranks(db, failed, ranking) ==
  LET try(name, v) == IF name \in failed THEN Null ELSE v
      name_of(d) == (CHOOSE f \in Range(db) : f.pred = "domain" /\ f.domain = d).name
      high(d) == risks_in_domain_by_severity(db, d, {"high"})
      found == {rank \in 1..4 : rank <= Len(ranking)}
  IN [global_risk_score |-> try("global_risk_score", Opaque),
      overall_risk_level |-> try("overall_risk_level", Opaque),
      primary_concern |-> try("primary_concern", Opaque),
      recommended_action |-> try("recommended_action", Opaque),
      most_critical_domain |->
        try("most_critical_domain",
            IF ranking = <<>> THEN Null
            ELSE Some([domain |-> ranking[1], domain_name |-> name_of(ranking[1]),
                       high_count |-> high(ranking[1]),
                       most_critical_subdomain |-> try("most_critical_subdomain", Opaque)])),
      top_3_critical_domains |->
        IF "top_3_critical_domains" \in failed THEN Some(<<>>)
        ELSE Some([i \in 1..Cardinality(found) |->
                     [rank |-> i, domain |-> ranking[i], domain_name |-> name_of(ranking[i]),
                      high_count |-> high(ranking[i])]])]

\* ranking: the order critical_domain_ranked puts the domains in
run_executive_summary(db, failed, ranking) ==
  LET try(name, v) == IF name \in failed THEN Null ELSE v
      name_of(d) == (CHOOSE f \in Range(db) : f.pred = "domain" /\ f.domain = d).name
      high(d) == risks_in_domain_by_severity(db, d, {"high"})
      found == {rank \in 1..3 : rank <= Len(ranking)}
  IN [global_risk_score |-> try("global_risk_score", Opaque),
      overall_risk_level |-> try("overall_risk_level", Opaque),
      primary_concern |-> try("primary_concern", Opaque),
      recommended_action |-> try("recommended_action", Opaque),
      most_critical_domain |->
        try("most_critical_domain",
            IF ranking = <<>> THEN Null
            ELSE Some([domain |-> ranking[1], domain_name |-> name_of(ranking[1]),
                       high_count |-> high(ranking[1]),
                       most_critical_subdomain |-> try("most_critical_subdomain", Opaque)])),
      top_3_critical_domains |->
        IF "top_3_critical_domains" \in failed THEN Some(<<>>)
        ELSE Some([i \in 1..Cardinality(found) |->
                     [rank |-> i, domain |-> ranking[i], domain_name |-> name_of(ranking[i]),
                      high_count |-> high(ranking[i])]])]

\* variant: the counting queries share one try block
run_basic_counting_analysis_one_try(db, failed) ==
  LET try(name, v) == IF failed # {} THEN Null ELSE v
      by(dimension) ==
        [v \in Values[dimension] |->
           try("by_" \o dimension \o "." \o v, Some(risks_by(db, dimension, v)))]
  IN [total_risks |-> try("total_risks", Some(total_risks(db))),
      by_severity |-> by("severity"),
      by_entity |-> by("entity"),
      by_intent |-> by("intent"),
      by_timing |-> by("timing"),
      by_domain |->
        IF "by_domain" \in failed THEN Some(EmptyDict)
        ELSE Some([d \in domains(db) |->
                     Some(risks_in_domain_by_severity(db, d, Values.severity))])]

run_basic_counting_analysis(db, failed) ==
  LET try(name, v) == IF name \in failed THEN Null ELSE v
      by(dimension) ==
        [v \in Values[dimension] |->
           try("by_" \o dimension \o "." \o v, Some(risks_by(db, dimension, v)))]
  IN [total_risks |-> try("total_risks", Some(total_risks(db))),
      by_severity |-> by("severity"),
      by_entity |-> by("entity"),
      by_intent |-> by("intent"),
      by_timing |-> by("timing"),
      by_domain |->
        IF "by_domain" \in failed THEN Some(EmptyDict)
        ELSE Some([d \in domains(db) |->
                     Some(risks_in_domain_by_severity(db, d, Values.severity))])]

\* variant: one of the two conditions is enough
high_risk_fragmentation_either(db) ==
  LET domain_count ==
        Cardinality({d \in domains(db) : risks_in_domain_by_severity(db, d, {"high"}) > 0})
      high_count == risks_by(db, "severity", "high")
  IN [alert |-> domain_count >= 4 \/ high_count >= 6, value |-> domain_count]

\* the block of lines 844-857: the domains D with
\* risks_in_domain_by_severity(D, high, C), C > 0, and risks_by_severity(high, C)
high_risk_fragmentation(db) ==
  LET domain_count ==
        Cardinality({d \in domains(db) : risks_in_domain_by_severity(db, d, {"high"}) > 0})
      high_count == risks_by(db, "severity", "high")
  IN [alert |-> domain_count >= 4 /\ high_count >= 6, value |-> domain_count]

run_pattern_analysis(db, failed) ==
  LET try(name, v) == IF name \in failed THEN Null ELSE v
      total == total_risks(db)
      count(want) == Cardinality(risks_matching(db, want))
      \* (count / total * 100) if total > 0 else 0, and round(pct, 2)
      pct(n) == IF total > 0 THEN percentage(n, total).value ELSE 0
      above(n, threshold) == IF total > 0 THEN n * 100 > threshold * total ELSE 0 > threshold
      below(n, threshold) == IF total > 0 THEN n * 100 < threshold * total ELSE 0 < threshold
      alert(name, flag, v) == try(name, Some([alert |-> flag, value |-> v]))
      high == risks_by(db, "severity", "high")
      medium == risks_by(db, "severity", "medium")
      ai == risks_by(db, "entity", "ai")
      human == risks_by(db, "entity", "human")
      intentional == risks_by(db, "intent", "intentional")
      post == risks_by(db, "timing", "post-deployment")
      pre == risks_by(db, "timing", "pre-deployment")
      \* percentage_high_severity(P): high_pct_query[0]["P"] if high_pct_query else 0
      high_pct == percentage(high, total)
      counts(bucket) == [n \in PatternNames[bucket] |-> try(n, Opaque)]
      subdomains == {i \in 1..Len(db) : db[i].pred = "subdomain"}
  IN [critical_patterns |-> counts("critical_patterns"),
      moderate_patterns |-> counts("moderate_patterns"),
      prevention_patterns |-> counts("prevention_patterns"),
      low_patterns |-> counts("low_patterns"),
      subdomain_analysis |->
        LET most_critical ==
              [most_critical |-> try("most_critical", IF subdomains = {} THEN Null ELSE Opaque)]
        IN IF "most_critical_in_top_domain" \in failed
           THEN Put(most_critical, "most_critical_in_top_domain", Null)
           ELSE IF subdomains = {} THEN most_critical
           ELSE Put(most_critical, "most_critical_in_top_domain", Opaque),
      distribution_metrics |->
        [ai_predeployment_percentage |->
           try("ai_predeployment_percentage",
               percentage(count([Values EXCEPT !.entity = {"ai"}, !.timing = {"pre-deployment"}]), total)),
         high_intentional_percentage |->
           try("high_intentional_percentage",
               percentage(count([Values EXCEPT !.severity = {"high"}, !.intent = {"intentional"}]), total)),
         ai_human_ratio |-> try("ai_human_ratio", percentage(ai, human))],
      alerts |->
        [critical_risk_concentration |->
           alert("critical_risk_concentration",
                 IF high_pct = Null THEN 0 > 40 ELSE high * 100 > 40 * total,
                 IF high_pct = Null THEN 0 ELSE high_pct.value),
         ai_dominance |-> alert("ai_dominance", above(ai, 60), pct(ai)),
         intentional_threats |-> alert("intentional_threats", intentional > 3, intentional),
         operational_risks |-> alert("operational_risks", above(post, 70), pct(post)),
         low_preventable_ratio |-> alert("low_preventable_ratio", below(pre, 10), pct(pre)),
         medium_risk_accumulation |-> alert("medium_risk_accumulation", above(medium, 40), pct(medium)),
         human_error_dominance |-> alert("human_error_dominance", above(human, 50), pct(human)),
         high_risk_fragmentation |->
           try("high_risk_fragmentation", Some(high_risk_fragmentation(db)))]]

run_context_analysis(db, failed) ==
  LET try(name, v) == IF name \in failed THEN Null ELSE v
      total == total_risks(db)
      defined ==
        Cardinality(risks_matching(db,
          [Values EXCEPT !.entity = @ \ {"other"}, !.intent = @ \ {"other"}, !.timing = @ \ {"other"}]))
      subdomains == {i \in 1..Len(db) : db[i].pred = "subdomain"}
  IN [risk_profile_comparison |-> try("risk_profile_comparison", Opaque),
      dominant_pattern |-> try("dominant_pattern", IF total = 0 THEN Null ELSE Opaque),
      fully_defined_causality_percentage |->
        try("fully_defined_causality_percentage", percentage(defined, total)),
      domain_coverage_percentage |->
        try("domain_coverage_percentage", percentage(Cardinality(domains(db)), 7)),
      subdomain_coverage_percentage |->
        try("subdomain_coverage_percentage", percentage(Cardinality(subdomains), 24))]

\* ------------------------------------------------------------------------
\* The nodes on inventories
\* ------------------------------------------------------------------------
\* prolog.assertz of every fact: the engine is the list of asserted facts
initialize_prolog(state, outcome) ==
  IF outcome = "ok"
  THEN Returns([state EXCEPT !.prolog = Some(state.prolog_facts)])
  ELSE Raises([state EXCEPT !.errors = AppendIfAbsent(@, MsgPrologInit)])

\* variant: the result is stored without its context section
execute_heuristic_analysis_three_sections(state, failed, ranking) ==
  IF state.prolog = Null
  THEN Returns([state EXCEPT !.errors = AppendIfAbsent(@, MsgPrologUnavailable)])
  ELSE LET prolog == state.prolog.value
       IN Returns([state EXCEPT !.heuristic =
                     [executive_summary |-> run_executive_summary(prolog, failed, ranking),
                      counting |-> run_basic_counting_analysis(prolog, failed),
                      patterns |-> run_pattern_analysis(prolog, failed)]])

execute_heuristic_analysis(state, failed, ranking) ==
  IF state.prolog = Null
  THEN Returns([state EXCEPT !.errors = AppendIfAbsent(@, MsgPrologUnavailable)])
  ELSE LET prolog == state.prolog.value
       IN Returns([state EXCEPT !.heuristic =
                     [executive_summary |-> run_executive_summary(prolog, failed, ranking),
                      counting |-> run_basic_counting_analysis(prolog, failed),
                      patterns |-> run_pattern_analysis(prolog, failed),
                      context |-> run_context_analysis(prolog, failed)]])

\* _flat_to_nested_risk: flat[...] of an absent field raises KeyError
flat_to_nested_risk(flat) ==
  IF {"title", "explanation", "severity", "mitigation", "entity", "entity_rationale",
      "intent", "intent_rationale", "timing", "timing_rationale"} \subseteq DOMAIN flat
  THEN Some([title |-> flat.title, explanation |-> flat.explanation, severity |-> flat.severity,
             severity_rationale |-> Get(flat, "severity_rationale", ""),
             mitigation |-> flat.mitigation,
             causality |->
               [entity |-> [value |-> flat.entity, rationale |-> flat.entity_rationale],
                intent |-> [value |-> flat.intent, rationale |-> flat.intent_rationale],
                timing |-> [value |-> flat.timing, rationale |-> flat.timing_rationale]]])
  ELSE Null

\* _convert_analysis_to_nested: Null when a risk or an entry makes it raise
convert_analysis_to_nested(analysis) ==
  IF \A i \in 1..Len(analysis) :
       /\ analysis[i].mapping
       /\ \A k \in 1..Len(analysis[i].risks) : flat_to_nested_risk(analysis[i].risks[k]) # Null
  THEN Some([i \in 1..Len(analysis) |->
               Entry(analysis[i].key,
                     [k \in 1..Len(analysis[i].risks) |->
                        flat_to_nested_risk(analysis[i].risks[k]).value])])
  ELSE Null

\* causality node_analyze on an inventory: parsed is the service's answer
analyze_inventory(state, outcome, parsed) ==
  IF outcome = "exception"
  THEN CallFails(Returns([state EXCEPT !.errors = Append(@, MsgLlm)]))
  ELSE IF convert_analysis_to_nested(parsed) = Null
       THEN Calls(Returns([state EXCEPT !.errors = Append(@, MsgConversion)]))
       ELSE Calls(Returns([state EXCEPT !.analysis = convert_analysis_to_nested(parsed).value]))

\* ------------------------------------------------------------------------
\* The second specification
\* ------------------------------------------------------------------------
\* the inventories the domain stage hands to the causality stage, and the
\* answers of the service to the causality stage's request
DomainInventories ==
  {<<>>, <<Entry(KeyOrder[1], <<Risks.domain>>)>>,
   <<Entry(KeyOrder[1], <<Risks.domain, Risks.domain>>)>>,
   <<Entry(KeyOrder[1], <<Risks.domain>>), Entry(KeyOrder[4], <<>>)>>}

ServiceAnswers ==
  {<<>>, <<Entry(KeyOrder[1], <<Risks.high_ai>>)>>,
   <<Entry(KeyOrder[1], <<Risks.high_ai, Risks.low_human>>)>>,
   <<Entry(KeyOrder[1], <<Risks.high_ai>>), Entry(KeyOrder[4], <<>>)>>,
   <<Entry(KeyOrder[4], <<Risks.low_human>>)>>,
   <<Entry(KeyOrder[1], <<Risks.bare>>)>>}

\* the try blocks in which the model lets a query raise
FailingBlocks ==
  {"global_risk_score", "most_critical_domain", "most_critical_subdomain",
   "top_3_critical_domains", "total_risks", "by_severity.high", "by_domain",
   "critical_ai_risks", "most_critical_in_top_domain", "ai_human_ratio",
   "critical_risk_concentration", "low_preventable_ratio", "dominant_pattern"}

\* a causality or a heuristic graph that has run its nodes up to the one
\* that works on the inventory, on an input document with a run identifier
InitInventory ==
  /\ entry \in {"causality", "heuristic"}
  /\ file = [status |-> "ok", content |-> EmptyQuestionnaire, absolute |-> FALSE]
  /\ seed \in {[State([run_id |-> 1], EmptyQuestionnaire, a, EmptyDict, <<>>)
                  EXCEPT !.prolog_facts = <<>>, !.prolog = Null] :
                 a \in IF entry = "causality" THEN DomainInventories ELSE Inventories}
  /\ orch_pc = "standalone"
  /\ orch = [domain_state |-> InitialDomainState]
  /\ stage = entry
  /\ pc = IF entry = "causality" THEN "Analyze" ELSE "GeneratePrologFacts"
  /\ ctx = seed
  /\ invoked = <<entry>>
  /\ executed = IF entry = "causality" THEN <<"Load", "Validate">> ELSE <<"Load">>
  /\ llm_calls = [st \in StageSet |-> 0]
  /\ llm_failures = [st \in StageSet |-> 0]
  /\ files = [p \in {} |-> NoneVal]
  /\ reports = {}
  /\ exit_code = "none"

inventory_analyze ==
  /\ stage = "causality" /\ pc = "Analyze"
  /\ \E outcome \in {"ok", "exception"}, parsed \in ServiceAnswers :
       Run(analyze_inventory(Local(ctx), outcome, parsed))

inventory_generate_prolog_facts ==
  /\ stage = "heuristic" /\ pc = "GeneratePrologFacts"
  /\ Run(generate_prolog_facts(Local(ctx)))

inventory_initialize_prolog ==
  /\ stage = "heuristic" /\ pc = "InitializeProlog"
  /\ \E outcome \in PrologOutcomes : Run(initialize_prolog(Local(ctx), outcome))

inventory_execute ==
  /\ stage = "heuristic" /\ pc = "ExecuteHeuristicAnalysis"
  /\ \E failed \in {{}} \cup {{b} : b \in FailingBlocks},
        ranking \in critical_domain_rankings(ctx.prolog.value) :
       Run(execute_heuristic_analysis(Local(ctx), failed, ranking))

NextInventory ==
  \/ inventory_analyze
  \/ inventory_generate_prolog_facts
  \/ inventory_initialize_prolog
  \/ inventory_execute
  \/ causality_save
  \/ heuristic_save
  \/ stage_main_exit

SpecInventory == InitInventory /\ [][NextInventory]_vars

\* ------------------------------------------------------------------------
\* Two runs that persist concurrently
\* ------------------------------------------------------------------------
\* Two stage processes, each with a context of its own and a run identifier
\* of its own, have reached their persisting nodes; they share the
\* directories of the artifacts.  open(path, "w") truncates the file, and
\* json.dump fills it afterwards, so the Save nodes of the two interleave.
\* Here seed, stage, pc and ctx hold one value per run; executed is the log
\* of the file operations.
Runs == {1, 2}

InitConcurrent ==
  /\ entry = "two_runs"
  /\ file = [status |-> "ok", content |-> EmptyQuestionnaire, absolute |-> FALSE]
  /\ stage \in [Runs -> StageSet]
  /\ seed \in [Runs -> {State([run_id |-> id], EmptyQuestionnaire, a, "result", <<>>) :
                          id \in InputRunIds, a \in {"domain_inventory", "causality_inventory"}}]
  /\ GetRunId(seed[1].metadata) # GetRunId(seed[2].metadata)
  /\ ctx = seed
  /\ pc = [r \in Runs |-> IF stage[r] = "report" THEN "GenerateHTMLReport"
                          ELSE NodesOf(stage[r])[Len(NodesOf(stage[r]))]]
  /\ orch_pc = "standalone"
  /\ orch = [domain_state |-> InitialDomainState]
  /\ invoked = <<>>
  /\ executed = <<>>
  /\ llm_calls = [st \in StageSet |-> 0]
  /\ llm_failures = [st \in StageSet |-> 0]
  /\ files = [p \in {} |-> NoneVal]
  /\ reports = {}
  /\ exit_code = "none"

\* the Save node of a run's stage
node_save(st, state, ts) ==
  CASE st = "domain" -> domain_node_save(state, ts)
    [] st = "causality" -> causality_node_save(state, ts)
    [] st = "heuristic" -> heuristic_node_save(state, ts)
    [] st = "report" -> report_node_save(state, ts)

\* a report run renders its HTML report
concurrent_generate_html ==
  \E r \in Runs, summary \in SummaryOutcomes, render \in RenderOutcomes :
    LET res == node_generate_html_report(Local(ctx[r]), summary, render)
    IN /\ stage[r] = "report" /\ pc[r] = "GenerateHTMLReport"
       /\ reports' = reports \cup res.html
       /\ executed' = executed \o [i \in 1..Cardinality(res.html) |->
                                     [run |-> r, op |-> "render", path |-> CHOOSE h \in res.html : TRUE]]
       /\ ctx' = [ctx EXCEPT ![r] = ApplyWrites(@, res.st)]
       /\ pc' = [pc EXCEPT ![r] = "Save"]
       /\ UNCHANGED <<entry, file, seed, orch_pc, orch, stage, invoked, llm_calls, llm_failures,
                      files, exit_code>>

\* a run's Save node opens its file for writing, which truncates it
concurrent_open ==
  \E r \in Runs, ts \in Timestamps :
    LET res == node_save(stage[r], Local(ctx[r]), ts)
    IN /\ pc[r] \in {"save", "Save"} /\ res.writes # {}
       /\ files' = WriteAll(files, {[path |-> w.path, content |-> [truncated |-> TRUE]] : w \in res.writes})
       /\ executed' = Append(executed, [run |-> r, op |-> "open",
                                        path |-> (CHOOSE w \in res.writes : TRUE).path])
       /\ pc' = [pc EXCEPT ![r] = "dump"]
       /\ UNCHANGED <<entry, file, seed, orch_pc, orch, stage, ctx, invoked, llm_calls,
                      llm_failures, reports, exit_code>>

\* the Save node dumps the payload into the file it opened and returns
concurrent_dump ==
  \E r \in Runs, ts \in Timestamps :
    LET res == node_save(stage[r], Local(ctx[r]), ts)
    IN /\ pc[r] = "dump"
       /\ files' = WriteAll(files, res.writes)
       /\ executed' = Append(executed, [run |-> r, op |-> "dump",
                                        path |-> (CHOOSE w \in res.writes : TRUE).path])
       /\ ctx' = [ctx EXCEPT ![r] = ApplyWrites(@, res.st)]
       /\ pc' = [pc EXCEPT ![r] = "end"]
       /\ UNCHANGED <<entry, file, seed, orch_pc, orch, stage, invoked, llm_calls,
                      llm_failures, reports, exit_code>>

NextConcurrent ==
  \/ concurrent_generate_html
  \/ concurrent_open
  \/ concurrent_dump

SpecConcurrent == InitConcurrent /\ [][NextConcurrent]_vars

\* ------------------------------------------------------------------------
\* Two heuristic runs, one after the other, in one process
\* ------------------------------------------------------------------------
\* pyswip's Prolog is one engine per process: every Prolog() is a handle on
\* it.  Here orch holds what belongs to the process, the clauses the engine
\* has been given so far; seed holds what the two runs read after Load, and
\* invoked counts the runs started.
InitSequential ==
  LET Small == {a \in Inventories : Len(a) = 1 /\ a[1].mapping /\ Len(a[1].risks) <= 1}
  IN /\ entry = "heuristic_twice"
     /\ file = [status |-> "ok", content |-> EmptyQuestionnaire, absolute |-> FALSE]
     /\ seed \in {<<[State([run_id |-> 1], EmptyQuestionnaire, a, EmptyDict, <<>>)
                       EXCEPT !.prolog_facts = <<>>, !.prolog = Null],
                    [State([run_id |-> 2], EmptyQuestionnaire, b, EmptyDict, <<>>)
                       EXCEPT !.prolog_facts = <<>>, !.prolog = Null]>> :
                    a \in Small, b \in Small}
     /\ orch_pc = "standalone"
     /\ orch = [engine |-> <<>>]
     /\ stage = "heuristic"
     /\ pc = "GeneratePrologFacts"
     /\ ctx = seed[1]
     /\ invoked = <<"heuristic">>
     /\ executed = <<"Load">>
     /\ llm_calls = [st \in StageSet |-> 0]
     /\ llm_failures = [st \in StageSet |-> 0]
     /\ files = [p \in {} |-> NoneVal]
     /\ reports = {}
     /\ exit_code = "none"

\* node_initialize_prolog, lines 271-288: Prolog(), consult of the rules,
\* assertz of every fact of the run; nothing is retracted, so the clauses
\* the engine holds afterwards are those it held followed by the run's
process_initialize_prolog(engine, state, outcome) ==
  IF outcome = "ok"
  THEN Returns([state EXCEPT !.prolog = Some(engine \o state.prolog_facts)])
  ELSE Raises([state EXCEPT !.errors = AppendIfAbsent(@, MsgPrologInit)])

sequential_initialize_prolog ==
  /\ stage = "heuristic" /\ pc = "InitializeProlog"
  /\ \E outcome \in PrologOutcomes :
       LET r == process_initialize_prolog(orch.engine, Local(ctx), outcome)
       IN /\ orch' = [engine |-> IF r.raised THEN orch.engine ELSE r.st.prolog.value]
          /\ executed' = Append(executed, pc)
          /\ pc' = IF r.raised THEN "raised" ELSE NextNode(stage, pc)
          /\ ctx' = IF r.raised
                    THEN [ctx EXCEPT !.errors = IF r.st.alias THEN r.st.errors ELSE @]
                    ELSE ApplyWrites(ctx, r.st)
  /\ UNCHANGED <<entry, file, seed, orch_pc, stage, invoked, llm_calls, llm_failures,
                 files, reports, exit_code>>

\* the first run is over; the process starts the second
sequential_next_run ==
  /\ stage = "heuristic" /\ pc \in {"end", "raised"} /\ Len(invoked) = 1
  /\ invoked' = Append(invoked, "heuristic")
  /\ ctx' = seed[2]
  /\ pc' = "GeneratePrologFacts"
  /\ executed' = <<"Load">>
  /\ UNCHANGED <<entry, file, seed, orch_pc, orch, stage, llm_calls, llm_failures,
                 files, reports, exit_code>>

NextSequential ==
  \/ inventory_generate_prolog_facts
  \/ sequential_initialize_prolog
  \/ inventory_execute
  \/ heuristic_save
  \/ sequential_next_run

SpecSequential == InitSequential /\ [][NextSequential]_vars

\* ------------------------------------------------------------------------
\* The domain stage on structured responses
\* ------------------------------------------------------------------------
\* SpecResponse runs the domain stage with the document the
\* text-generation service answered: a field value is Some(characters) when
\* it is a str and Null when it is any other value, a risk is a dictionary
\* of field values, ctx.analysis the list of validated entries.

\* number of risks in the risk list of an answered document
MaxAnswerRisks == 2

RiskItemFields == {"title", "explanation", "severity", "mitigation"}
SeverityLiteral == {<<"l", "o", "w">>, <<"m", "e", "d", "i", "u", "m">>, <<"h", "i", "g", "h">>}

\* variant: any str passes
non_empty_any_str(v) == v # Null

\* the field validator _non_empty: TRUE when it returns, FALSE when it
\* raises; strip(s) is s.strip()
non_empty(v) ==
  LET strip(s) ==
        LET kept == {i \in 1..Len(s) : s[i] # " "}
        IN IF kept = {} THEN <<>>
           ELSE SubSeq(s, CHOOSE i \in kept : \A j \in kept : i <= j,
                          CHOOSE i \in kept : \A j \in kept : j <= i)
  IN v # Null /\ strip(v.value) # <<>>

\* RiskItem: the validated model's model_dump(), Null on a validation error
RiskItem(risk) ==
  IF /\ RiskItemFields \subseteq DOMAIN risk
     /\ \A f \in RiskItemFields : non_empty(risk[f])
     /\ risk["severity"].value \in SeverityLiteral
  THEN Some([f \in RiskItemFields |-> risk[f].value])
  ELSE Null

\* DomainAnalysisAdapter.validate_python(parsed) followed by model_dump() of
\* every item: Null on a validation error
DomainAnalysisAdapter(parsed) ==
  IF /\ parsed # Null
     /\ \A i \in 1..Len(parsed.value) :
          /\ parsed.value[i].mapping
          /\ "risks" \in DOMAIN parsed.value[i].item
          /\ \A j \in 1..Len(parsed.value[i].item["risks"]) :
               RiskItem(parsed.value[i].item["risks"][j]) # Null
  THEN Some([i \in 1..Len(parsed.value) |->
               Entry(parsed.value[i].key,
                     [j \in 1..Len(parsed.value[i].item["risks"]) |->
                        RiskItem(parsed.value[i].item["risks"][j]).value])])
  ELSE Null

\* the documents the service answers: the call raises, the answer is neither
\* a dictionary nor an object with a parsed attribute, the parsed answer is
\* not a dictionary, or it is a dictionary with at most one key whose item is
\* not a dictionary, has no "risks", or has up to MaxAnswerRisks risks
StructuredResponses ==
  LET Titles == {Some(<<"t">>), Some(<<" ", "t">>), Some(<<" ">>), Some(<<>>), Null}
      Severities == {Some(s) : s \in SeverityLiteral}
                      \cup {Some(<<"L", "o", "w">>), Some(<<"l", "o", "w", " ">>), Some(<<" ">>),
                            Some(<<>>), Null}
      Texts == {Some(<<"e">>), Some(<<>>)}
      Full == {[title |-> t, explanation |-> e, severity |-> s, mitigation |-> m] :
                 t \in Titles, e \in Texts, s \in Severities, m \in Texts}
      Good == [title |-> Some(<<"t">>), explanation |-> Some(<<"e">>),
               severity |-> Some(<<"h", "i", "g", "h">>), mitigation |-> Some(<<"m">>)]
      Partial == {[f \in D |-> Good[f]] : D \in SUBSET RiskItemFields}
      Extra == {[f \in RiskItemFields \cup {"note"} |-> IF f = "note" THEN Some(<<"n">>) ELSE Good[f]]}
      One == Full \cup Partial \cup Extra
      Second == {Good,
                 [Good EXCEPT !.severity = Some(<<"l", "o", "w">>)],
                 [Good EXCEPT !.title = Some(<<>>)],
                 [Good EXCEPT !.mitigation = Some(<<" ">>)]}
      RiskLists == {<<>>} \cup {<<r>> : r \in One}
                     \cup UNION {[1..n -> Second] : n \in 2..MaxAnswerRisks}
      Item(key, mapping, item) == [key |-> key, mapping |-> mapping, item |-> item]
      Parsed == {Null, Some(<<>>), Some(<<Item(KeyOrder[4], FALSE, EmptyDict)>>),
                 Some(<<Item(KeyOrder[4], TRUE, EmptyDict)>>)}
                  \cup {Some(<<Item(KeyOrder[4], TRUE, [risks |-> l])>>) : l \in RiskLists}
  IN {[kind |-> "raises", parsed |-> Null], [kind |-> "other_type", parsed |-> Null]}
       \cup {[kind |-> "dict", parsed |-> p] : p \in Parsed}

\* node_analyze on the document the service answered
domain_node_analyze_response(state, response) ==
  IF ~state.questionnaire.nonempty
  THEN Returns([state EXCEPT !.errors = Append(@, MsgNoQuestionnaire)])
  ELSE CASE response.kind = "raises" ->
              CallFails(Returns([state EXCEPT !.errors = AppendIfAbsent(@, MsgDomainLlm)]))
         [] response.kind = "other_type" ->
              Calls(Returns([state EXCEPT !.errors = AppendIfAbsent(@, MsgDomainLlm)]))
         [] OTHER ->
              LET validated == DomainAnalysisAdapter(response.parsed)
              IN IF validated = Null
                 THEN Calls(Returns([state EXCEPT !.errors = AppendIfAbsent(@, MsgDomainValidation)]))
                 ELSE Calls(Returns([state EXCEPT !.analysis = validated.value]))

InitResponse ==
  /\ entry = "domain"
  /\ file \in InputFiles
  /\ seed = [InitialDomainState EXCEPT !.analysis = <<>>]
  /\ orch_pc = "start"
  /\ orch = [domain_state |-> seed]
  /\ stage = "none"
  /\ pc = "idle"
  /\ ctx = seed
  /\ invoked = <<>>
  /\ executed = <<>>
  /\ llm_calls = [st \in StageSet |-> 0]
  /\ llm_failures = [st \in StageSet |-> 0]
  /\ files = [p \in {} |-> NoneVal]
  /\ reports = {}
  /\ exit_code = "none"

response_analyze ==
  /\ stage = "domain" /\ pc = "analyze"
  /\ \E response \in StructuredResponses : Run(domain_node_analyze_response(Local(ctx), response))

NextResponse ==
  \/ stage_main_start
  \/ domain_load \/ domain_validate \/ response_analyze \/ domain_save
  \/ stage_main_exit

SpecResponse == InitResponse /\ [][NextResponse]_vars

\* ========================================================================
\* Properties
\* ========================================================================
Orchestrated == entry = "orchestrator"

\* the current graph has returned its final context (its last node returned)
Returned == stage \in StageSet /\ pc = "end"

\* C1: when a stage graph returns a final context with a non-empty error
\* list, the orchestrator raises at once: the result is not stored in the
\* orchestrator state, and after the raise no stage graph is invoked and
\* the orchestrator state is never written again.
C1_AbortOnStageErrors ==
  [][/\ (Orchestrated /\ Returned /\ ctx.errors # <<>>)
        => (orch_pc' = "raised" /\ orch' = orch /\ invoked' = invoked /\ stage' = "none")
     /\ (Orchestrated /\ orch_pc \in {"raised", "exited"})
        => (invoked' = invoked /\ orch' = orch /\ stage' = "none")]_vars

\* the causality graph returned with errors and the orchestrator raised
C1_Witness ==
  /\ Orchestrated /\ orch_pc = "raised"
  /\ invoked = <<"domain", "causality">>
  /\ executed = CausalityNodes
  /\ ctx.errors # <<>>
  /\ "causality_state" \notin DOMAIN orch

\* C2: the stage graphs are invoked in the order domain, causality,
\* heuristic, report, each at most once, and a graph is invoked only when
\* the graph before it has run all its nodes and returned an empty error list.
C2_StageOrder ==
  [][(Orchestrated /\ invoked' # invoked)
       => /\ Len(invoked) < Len(Stages)
          /\ invoked' = Append(invoked, Stages[Len(invoked) + 1])
          /\ \A i \in 1..Len(invoked) : invoked[i] = Stages[i]
          /\ Len(invoked) >= 1
               => /\ executed = NodesOf(Stages[Len(invoked)])
                  /\ ctx.errors = <<>>
                  /\ pc = "idle"]_vars

\* a complete run: the four graphs were invoked and the run reached END
C2_Witness == Orchestrated /\ orch_pc = "END" /\ invoked = Stages /\ executed = ReportNodes

\* the run identifier carried by the answers file, NoRunId when it has none
InputRunId ==
  IF file.status = "ok" /\ file.content.has_metadata
  THEN GetRunId(file.content.metadata)
  ELSE NoRunId

\* a run that starts with the domain stage
FromDomain == entry \in {"orchestrator", "domain"}

\* C3: the run identifier fixed by the domain stage's Load (the input
\* metadata's run_id when present, otherwise a minted one) never changes:
\* every later state dictionary of the domain, causality, heuristic and
\* report graphs carries it, and so do the name and the metadata of every
\* artifact and report written.
C3_RunIdImmutable ==
  /\ [](/\ (FromDomain /\ GetRunId(ctx.metadata) # NoRunId)
             => IF InputRunId # NoRunId
                THEN GetRunId(ctx.metadata) = InputRunId
                ELSE GetRunId(ctx.metadata) \in MintedRunIds
        /\ (FromDomain /\ stage \in StageSet
              /\ (stage # "domain" \/ (executed # <<>> /\ pc # "raised")))
             => GetRunId(ctx.metadata) # NoRunId \/ file.status # "ok"
        /\ \A p \in DOMAIN files :
             p[2] = GetRunId(ctx.metadata) /\ GetRunId(files[p].metadata) = GetRunId(ctx.metadata)
        /\ \A p \in reports : p[2] = GetRunId(ctx.metadata))
  /\ [][GetRunId(ctx.metadata) # NoRunId
          => GetRunId(ctx'.metadata) = GetRunId(ctx.metadata)]_vars

\* a complete orchestrated run on an answers file without run_id: the four
\* artifacts and the report carry the minted identifier
C3_Witness ==
  /\ Orchestrated /\ orch_pc = "END"
  /\ InputRunId = NoRunId
  /\ GetRunId(ctx.metadata) \in MintedRunIds
  /\ Cardinality(DOMAIN files) = 4
  /\ reports # {}

\* C4: a node other than Persist that records a message in the error list
\* returns normally: it does not raise out of its graph, and the graph goes
\* on with its next node.
C4_DefectsNeverRaise ==
  [][(/\ stage \in StageSet
      /\ pc \in Range(NodesOf(stage)) /\ pc # PersistNode(stage)
      /\ ctx'.errors # ctx.errors)
       => pc' = NextNode(stage, pc)]_vars

\* the message Persist records when the run identifier is missing
PersistMsg(st) ==
  CASE st = "domain" -> MsgDomainNoRunId
    [] st = "causality" -> MsgNoRunId
    [] st = "heuristic" -> MsgHeuristicSave
    [] st = "report" -> MsgReportSave

C6_NoErrorsMeansReport ==
  (stage = "report" /\ pc = "end" /\ ctx.errors = <<>>)
    => (ctx.html_path # <<>> /\ ctx.html_path \in reports)

\* C7 as stated: in every stage the service is called at most once, and a
\* failed call adds a message to the stage's error list.
C7_FailedCallRecorded ==
  /\ [](\A st \in StageSet : llm_calls[st] <= 1)
  /\ [][\A st \in StageSet :
          llm_failures'[st] > llm_failures[st] => Len(ctx'.errors) > Len(ctx.errors)]_vars

\* the fallback text of the report's summary
SummaryFallback == generate_executive_summary_text("exception")

\* C7 amended: in every stage the service is called at most once; a failed
\* call adds a message to the error list in the domain and causality
\* stages; in the report stage it adds none: the fixed fallback text becomes
\* the executive summary and the error list stays as it was.
C7_FailedCallRecordedOrFallback ==
  /\ [](\A st \in StageSet : llm_calls[st] <= 1 /\ llm_failures[st] <= llm_calls[st])
  /\ [][\A st \in StageSet :
          llm_failures'[st] > llm_failures[st]
            => /\ st = stage
               /\ st \in {"domain", "causality", "report"}
               /\ st \in {"domain", "causality"}
                    => /\ Len(ctx'.errors) > Len(ctx.errors)
                       /\ ctx'.errors[Len(ctx'.errors)] \in {MsgDomainLlm, MsgLlm}
               /\ st = "report"
                    => /\ ctx'.metadata["executive_summary_text"] = SummaryFallback
                       /\ Range(ctx'.errors) = Range(ctx.errors)]_vars

\* an orchestrated run in which the domain and causality calls succeeded and
\* the summary call of the report stage failed
C7_Witness ==
  /\ Orchestrated /\ stage = "report" /\ pc = "Save"
  /\ llm_calls = [st \in StageSet |-> IF st = "heuristic" THEN 0 ELSE 1]
  /\ llm_failures["report"] = 1
  /\ ctx.metadata["executive_summary_text"] = SummaryFallback

\* C8: the error list never holds a message twice.
C8_ErrorsDeduplicated == NoDuplicates(ctx.errors)

EnvelopeKeys == {"run_id", "timestamp", "analysis_current_step", "analysis_next_step", "errors"}

\* the stage that writes the artifact at path p
StageOfPath(p) == CHOOSE st \in StageSet : ArtifactKind(st) = p[1]

\* C9: the metadata of every persisted stage artifact holds run_id,
\* timestamp, analysis_current_step, analysis_next_step and errors; the
\* (current, next) labels are (domain_evaluation, causality_evaluation),
\* (causality_evaluation, heuristic_evaluation), (heuristic_evaluation,
\* report_generation), (report_generation, None); an artifact's next-step
\* label is the current-step label of the following stage's artifact.
C9_ArtifactEnvelope ==
  \A p \in DOMAIN files :
    LET m == files[p].metadata
        st == StageOfPath(p)
    IN /\ EnvelopeKeys \subseteq DOMAIN m
       /\ m["run_id"] # NoRunId
       /\ m["timestamp"] \in Timestamps
       /\ <<m["analysis_current_step"], m["analysis_next_step"]>> =
            CASE st = "domain" -> <<"domain_evaluation", "causality_evaluation">>
              [] st = "causality" -> <<"causality_evaluation", "heuristic_evaluation">>
              [] st = "heuristic" -> <<"heuristic_evaluation", "report_generation">>
              [] st = "report" -> <<"report_generation", NoneVal>>
       /\ \A q \in DOMAIN files :
            IndexOf(Stages, StageOfPath(q)) = IndexOf(Stages, st) + 1
              => m["analysis_next_step"] = files[q].metadata["analysis_current_step"]

\* the artifacts of the four stages have been written
C9_Witness == \A st \in StageSet : \E p \in DOMAIN files : p[1] = ArtifactKind(st)

\* C10: Persist with a run identifier writes the stage artifact whatever
\* the error list holds, and the errors field of the written metadata is
\* the error list as the earlier nodes of the graph left it.
C10_PersistWritesErrors ==
  [][(stage \in StageSet /\ pc = PersistNode(stage) /\ GetRunId(ctx.metadata) # NoRunId)
       => LET p == <<ArtifactKind(stage), GetRunId(ctx.metadata)>>
          IN /\ pc' = "end"
             /\ p \in DOMAIN files'
             /\ files'[p].metadata["errors"] = ctx.errors
             /\ DOMAIN files' = DOMAIN files \cup {p}]_vars

\* a causality graph returned after Persist wrote an artifact whose
\* metadata holds a non-empty error list
C10_Witness ==
  /\ stage = "causality" /\ pc = "end"
  /\ \E p \in DOMAIN files :
       p[1] = ArtifactKind("causality") /\ files[p].metadata["errors"] # <<>>
\* ------------------------------------------------------------------------
\* Properties of the second specification
\* ------------------------------------------------------------------------
\* the heuristic graph has run its fact extraction
Extracted == stage = "heuristic" /\ "GeneratePrologFacts" \in Range(executed)

\* every value of the inventory is a mapping
AllMappings == \A i \in 1..Len(ctx.analysis) : ctx.analysis[i].mapping

WellFormedKey(key) == Len(split(key, ".")) = 2

\* the number of facts of a predicate in the extracted fact list
NumFacts(pred) == Cardinality({i \in 1..Len(ctx.prolog_facts) : ctx.prolog_facts[i].pred = pred})

RECURSIVE SumRiskLists(_)
SumRiskLists(analysis) ==
  IF analysis = <<>> THEN 0 ELSE Len(Head(analysis).risks) + SumRiskLists(Tail(analysis))

\* C11: for an inventory of mappings whose keys all split into exactly two
\* parts on ".", the extracted facts hold as many risk facts as the risk
\* lists hold risks, and for every risk fact exactly one entity, one intent
\* and one timing fact with the risk fact's (domain, subdomain, ordinal);
\* no causality fact is without its risk fact.
C11_FactCounts ==
  (Extracted /\ AllMappings /\ \A i \in 1..Len(ctx.analysis) : WellFormedKey(ctx.analysis[i].key))
    => LET facts == ctx.prolog_facts
           risk == {i \in 1..Len(facts) : facts[i].pred = "risk"}
       IN /\ NumFacts("risk") = SumRiskLists(ctx.analysis)
          /\ \A pred \in {"causality_entity", "causality_intent", "causality_timing"} :
               /\ NumFacts(pred) = NumFacts("risk")
               /\ \A i \in risk :
                    Cardinality({j \in 1..Len(facts) :
                                   facts[j].pred = pred /\ facts[j].id = facts[i].id}) = 1

\* facts were extracted from three well-formed keys holding four risks,
\* flat ones among them
C11_Witness ==
  /\ Extracted /\ AllMappings /\ pc = "InitializeProlog"
  /\ \A i \in 1..Len(ctx.analysis) : WellFormedKey(ctx.analysis[i].key)
  /\ Len(ctx.analysis) = 3
  /\ NumFacts("risk") = 4
  /\ \E i \in 1..Len(ctx.analysis) : Risks.bare \in Range(ctx.analysis[i].risks)

\* the inventory without the keys that do not split into exactly two parts
WithoutMalformedKeys(analysis) == SelectSeq(analysis, LAMBDA e : WellFormedKey(e.key))

WithoutFailure(db, ranking) ==
  [executive_summary |-> run_executive_summary(db, {}, ranking),
   counting |-> run_basic_counting_analysis(db, {}),
   patterns |-> run_pattern_analysis(db, {}),
   context |-> run_context_analysis(db, {})]

\* where the sections hold the metric of a failing block
MetricPath ==
  [b \in FailingBlocks |->
     CASE b \in {"global_risk_score", "most_critical_domain", "top_3_critical_domains"}
            -> <<"executive_summary", b>>
       [] b = "most_critical_subdomain"
            -> <<"executive_summary", "most_critical_domain", "value", b>>
       [] b \in {"total_risks", "by_domain"} -> <<"counting", b>>
       [] b = "by_severity.high" -> <<"counting", "by_severity", "high">>
       [] b = "critical_ai_risks" -> <<"patterns", "critical_patterns", b>>
       [] b = "most_critical_in_top_domain" -> <<"patterns", "subdomain_analysis", b>>
       [] b = "ai_human_ratio" -> <<"patterns", "distribution_metrics", b>>
       [] b \in {"critical_risk_concentration", "low_preventable_ratio"}
            -> <<"patterns", "alerts", b>>
       [] b = "dominant_pattern" -> <<"context", b>>]

\* h with the metric at path set to v, every other metric as it is
RECURSIVE SetAt(_, _, _)
SetAt(h, path, v) ==
  IF Len(path) = 1 THEN Put(h, path[1], v)
  ELSE IF Head(path) \in DOMAIN h
       THEN [h EXCEPT ![Head(path)] = SetAt(@, Tail(path), v)]
       ELSE h

\* the sections differ from the failure-free ones in at most one metric,
\* which holds what placeholder(b) says
OneMetricReplaced(sections, db, placeholder(_)) ==
  \E ranking \in critical_domain_rankings(db) :
    \E clean \in {WithoutFailure(db, ranking)} :
      \/ sections = clean
      \/ \E b \in FailingBlocks : sections = SetAt(clean, MetricPath[b], placeholder(b))

OnlyNull(b) == Null

\* what the except branch of a block stores
Placeholder(b) ==
  CASE b = "top_3_critical_domains" -> Some(<<>>)
    [] b = "by_domain" -> Some(EmptyDict)
    [] OTHER -> Null

ExecuteStep == stage = "heuristic" /\ pc = "ExecuteHeuristicAnalysis"

Analysed ==
  /\ stage = "heuristic" /\ "ExecuteHeuristicAnalysis" \in Range(executed)
  /\ ctx.prolog # Null /\ AllMappings

\* the alerts whose value is a share of the total
ShareAlerts ==
  {"critical_risk_concentration", "ai_dominance", "operational_risks", "low_preventable_ratio",
   "medium_risk_accumulation", "human_error_dominance"}

\* the flag of an alert whose block did not fail is flag
AlertIs(name, flag) ==
  LET alert == ctx.heuristic.patterns.alerts[name]
  IN alert # Null => alert.value.alert = flag

\* C14: for every non-empty inventory the flags follow the strict
\* thresholds on the counts of the fact base: high * 100 > 40 * total,
\* ai * 100 > 60 * total, intentional > 3, post-deployment * 100 > 70 * total,
\* pre-deployment * 100 < 10 * total, medium * 100 > 40 * total and
\* human * 100 > 50 * total.
C14_AlertThresholds ==
  (Analysed /\ ctx.analysis # <<>>)
    => LET db == ctx.prolog.value
           total == total_risks(db)
       IN /\ AlertIs("critical_risk_concentration", risks_by(db, "severity", "high") * 100 > 40 * total)
          /\ AlertIs("ai_dominance", risks_by(db, "entity", "ai") * 100 > 60 * total)
          /\ AlertIs("intentional_threats", risks_by(db, "intent", "intentional") > 3)
          /\ AlertIs("operational_risks", risks_by(db, "timing", "post-deployment") * 100 > 70 * total)
          /\ AlertIs("low_preventable_ratio", risks_by(db, "timing", "pre-deployment") * 100 < 10 * total)
          /\ AlertIs("medium_risk_accumulation", risks_by(db, "severity", "medium") * 100 > 40 * total)
          /\ AlertIs("human_error_dominance", risks_by(db, "entity", "human") * 100 > 50 * total)

\* C15: for the empty inventory the stage reports total_risks = 0 and every
\* one of the eight alerts has alert = false.
C15_EmptyInventoryRaisesNoAlert ==
  (Analysed /\ ctx.analysis = <<>>)
    => /\ ctx.heuristic.counting.total_risks \in {Null, Some(0)}
       /\ \A name \in DOMAIN ctx.heuristic.patterns.alerts : AlertIs(name, FALSE)

\* C16: over a fact base without risks every percentage and ratio is null
\* and no alert carries 0 as its share; the queries end without raising.
C16_ZeroDenominatorIsNull ==
  (Analysed /\ total_risks(ctx.prolog.value) = 0)
    => /\ pc # "raised"
       /\ \A m \in DOMAIN ctx.heuristic.patterns.distribution_metrics :
            ctx.heuristic.patterns.distribution_metrics[m] = Null
       /\ ctx.heuristic.context.fully_defined_causality_percentage = Null
       /\ \A name \in ShareAlerts :
            LET alert == ctx.heuristic.patterns.alerts[name]
            IN alert # Null => alert.value.value # 0
\* the inventory with the single key "2.1" and the two flat risks
TwoFlatRisks == <<Entry(<<"2", ".", "1">>, <<Risks.high_ai, Risks.low_human>>)>>

\* what the sections hold for TwoFlatRisks, each in the place of the
\* section's metric; a metric whose query failed is null
TwoFlatRisksExpected(h, holds(_, _)) ==
  /\ holds(h.counting.total_risks, Some(2))
  /\ holds(h.counting.by_severity["high"], Some(1))
  /\ holds(h.counting.by_severity["medium"], Some(0))
  /\ holds(h.counting.by_severity["low"], Some(1))
  /\ holds(h.counting.by_entity["ai"], Some(1))
  /\ holds(h.counting.by_entity["human"], Some(1))
  /\ holds(h.counting.by_entity["other"], Some(0))
  /\ holds(h.patterns.alerts.critical_risk_concentration, Some([alert |-> TRUE, value |-> 5000]))
  /\ holds(h.patterns.alerts.ai_dominance, Some([alert |-> FALSE, value |-> 5000]))
  /\ \/ h.executive_summary.most_critical_domain = Null
     \/ /\ h.executive_summary.most_critical_domain.value.domain = <<"2">>
        /\ h.executive_summary.most_critical_domain.value.high_count = 1

\* C17: for the inventory {"2.1": [high/ai/intentional/post-deployment,
\* low/human/unintentional/pre-deployment]} with flat fields, every metric
\* whose query did not fail is: total_risks 2, by_severity 1/0/1, by_entity
\* 1/1/0, critical_risk_concentration true at 50.00, ai_dominance false at
\* 50.00, most_critical_domain "2" with high_count 1.
C17_TwoRiskScenario ==
  (Analysed /\ ctx.analysis = TwoFlatRisks)
    => TwoFlatRisksExpected(ctx.heuristic, LAMBDA metric, v : metric \in {Null, v})

\* the scenario ran without a failing query and every metric is reported
C17_Witness ==
  /\ Analysed /\ ctx.analysis = TwoFlatRisks /\ pc = "Save"
  /\ TwoFlatRisksExpected(ctx.heuristic, LAMBDA metric, v : metric = v)
  /\ ctx.heuristic.executive_summary.most_critical_domain # Null
\* the high-severity risk facts of a domain, counted on the extracted facts
HighRiskFacts(d) ==
  Cardinality({i \in 1..Len(ctx.prolog_facts) :
                 /\ ctx.prolog_facts[i].pred = "risk"
                 /\ ctx.prolog_facts[i].id.domain = d
                 /\ ctx.prolog_facts[i].severity = "high"})

Shape(analysis) == {<<analysis[i].key, Len(analysis[i].risks)>> : i \in 1..Len(analysis)}

\* C19: once the causality stage has analysed, the inventory in its
\* context has the keys, in the order, and the per-key list lengths of the
\* inventory the stage was seeded with.
C19_CausalityKeepsShape ==
  (stage = "causality" /\ "Analyze" \in Range(executed))
    => /\ Shape(ctx.analysis) = Shape(seed.analysis)
       /\ [i \in 1..Len(ctx.analysis) |-> ctx.analysis[i].key]
            = [i \in 1..Len(seed.analysis) |-> seed.analysis[i].key]
\* C20: a standalone run exits with 0 only if the pipeline finished with an
\* empty error list, with 1 whenever the final error list is non-empty or a
\* stage raised, and with 2 when the input file is missing, and then no
\* stage state has been executed.
C20_ExitCodes ==
  orch_pc = "exited"
    => /\ exit_code = "0" => (ctx.errors = <<>> /\ pc # "raised")
       /\ (ctx.errors # <<>> \/ pc = "raised") => exit_code = "1"
       /\ file.status = "missing" => (exit_code = "2" /\ executed = <<>>)
\* the artifact a stage's Save node writes for a context
SaveOutput(st, state, ts) ==
  CASE st = "domain" -> domain_save_output(state, ts)
    [] st = "causality" -> causality_save_output(state, ts)
    [] st = "heuristic" -> heuristic_save_output(state, ts)
    [] st = "report" -> report_save_output(state, ts)

\* C21: two runs with distinct run identifiers persist concurrently: under
\* every interleaving no path is opened, filled or rendered by both runs,
\* and once a run's Save has returned, the artifact named by the run's
\* identifier holds that run's metadata and payload, whatever the other run
\* is doing; the report a run rendered is named by its identifier too.
C21_RunsDoNotCollide ==
  /\ \A i, j \in 1..Len(executed) :
       executed[i].path = executed[j].path => executed[i].run = executed[j].run
  /\ \A r \in Runs :
       pc[r] = "end"
         => LET run_id == GetRunId(ctx[r].metadata)
                path == <<ArtifactKind(stage[r]), run_id>>
            IN /\ run_id = GetRunId(seed[r].metadata)
               /\ path \in DOMAIN files
               /\ \E ts \in Timestamps : files[path] = SaveOutput(stage[r], ctx[r], ts)
               /\ GetRunId(files[path].metadata) = run_id
               /\ stage[r] # "report" => files[path].analysis = seed[r].analysis
               /\ ctx[r].html_path # <<>>
                    => ctx[r].html_path \in reports /\ ctx[r].html_path[2] = run_id

\* two runs of the same stage with different inventories opened their files
\* one after the other before either was filled, and both have returned
C21_Witness ==
  /\ stage[1] = stage[2] /\ stage[1] = "heuristic"
  /\ seed[1].analysis # seed[2].analysis
  /\ pc[1] = "end" /\ pc[2] = "end"
  /\ Len(executed) = 4
  /\ executed[1].op = "open" /\ executed[2].op = "open" /\ executed[1].run # executed[2].run
  /\ Cardinality(DOMAIN files) = 2
\* the states of a pipeline by role
ValidateStates == {"validate", "Validate"}
LoadStates == {"load_file", "Load"}

IsPrefix(a, b) == Len(a) <= Len(b) /\ \A i \in 1..Len(a) : a[i] = b[i]

StatedOrder ==
  [domain |-> <<"load_file", "validate", "analyze", "save">>,
   causality |-> <<"Load", "Validate", "Analyze", "Save">>,
   heuristic |-> <<"Load", "GeneratePrologFacts", "InitializeProlog",
                   "ExecuteHeuristicAnalysis", "Save">>,
   report |-> <<"Load", "GenerateHTMLReport", "Save">>]

Terminal ==
  /\ orch_pc = "exited" /\ exit_code \in {"0", "1"}
  /\ exit_code = "0"
       => /\ invoked = Stages
          /\ \A key \in {"domain_state", "causality_state", "heuristic_state", "report_state"} :
               key \in DOMAIN orch /\ orch[key].errors = <<>>

\* C23: every orchestrator run that has started eventually ends, completed
\* or aborted by a raise, and until then no stage is invoked twice and no
\* state of a stage is executed twice.
C23_RunTerminates ==
  /\ [](Orchestrated => (NoDuplicates(invoked) /\ NoDuplicates(executed)))
  /\ (Orchestrated /\ orch_pc = "domain") ~> Terminal

\* an orchestrator run has completed
C23_Witness ==
  /\ Orchestrated /\ Terminal /\ exit_code = "0" /\ "report_state" \in DOMAIN orch

\* C24: within each subdomain the risk facts carry the ordinals 1..n in the
\* order of the subdomain's risk list (the k-th risk fact of a subdomain has
\* ordinal k and the title and severity of the k-th risk of the list), the
\* numbering restarts at 1 for every subdomain, and no two risk facts share
\* their (domain, subdomain, ordinal).
C24_LocalOrdinals ==
  (Extracted /\ AllMappings)
    => LET facts == ctx.prolog_facts
           risk == SelectSeq(facts, LAMBDA f : f.pred = "risk")
       IN /\ \A e \in 1..Len(ctx.analysis) :
               WellFormedKey(ctx.analysis[e].key)
                 => LET parts == split(ctx.analysis[e].key, ".")
                        risks == ctx.analysis[e].risks
                        mine == SelectSeq(risk, LAMBDA f : f.id.domain = parts[1]
                                                            /\ f.id.subdomain = parts[2])
                    IN /\ Len(mine) = Len(risks)
                       /\ \A k \in 1..Len(mine) :
                            /\ mine[k].id.risk_id = k
                            /\ mine[k].severity = Get(risks[k], "severity", "medium")
                            /\ mine[k].title = escape_prolog_string(Get(risks[k], "title", <<>>))
          /\ \A i, j \in 1..Len(risk) : i # j => risk[i].id # risk[j].id

\* facts were extracted from an inventory in which two subdomains of one
\* domain hold two risks each, of different severities
C24_Witness ==
  /\ Extracted /\ AllMappings /\ pc = "InitializeProlog"
  /\ \E a, b \in 1..Len(ctx.analysis) :
       /\ a # b
       /\ ctx.analysis[a].key = KeyOrder[1] /\ ctx.analysis[b].key = KeyOrder[3]
       /\ ctx.analysis[a].risks = <<Risks.bare, Risks.nested>>
       /\ ctx.analysis[b].risks = <<Risks.bare, Risks.nested>>
  /\ Cardinality({i \in 1..Len(ctx.prolog_facts) :
                    ctx.prolog_facts[i].pred = "risk" /\ ctx.prolog_facts[i].id.risk_id = 1}) >= 2

\* C25: the extracted facts hold exactly one domain fact for each distinct
\* domain id among the well-formed keys and exactly one subdomain fact for
\* each well-formed key, whether or not its risk list is empty; the name of
\* the fact is the catalog's text for the id, or "Domain {id}" /
\* "Subdomain {domain}.{subdomain}" for an id the catalog does not list
\* (written into the fact with the quoting of escape_prolog_string).
C25_DomainAndSubdomainFacts ==
  (Extracted /\ AllMappings)
    => LET facts == ctx.prolog_facts
           keys == {split(e.key, ".") : e \in {x \in Range(ctx.analysis) : WellFormedKey(x.key)}}
           ids == {k[1] : k \in keys}
           Of(pred) == {i \in 1..Len(facts) : facts[i].pred = pred}
           listed == {<<"1">>, <<"2">>, <<"3">>, <<"4">>, <<"5">>, <<"6">>, <<"7">>}
           sublisted == {<<"1", n>> : n \in {"1", "2", "3"}}
                          \cup {<<d, n>> : d \in {"2", "3", "5"}, n \in {"1", "2"}}
                          \cup {<<"4", n>> : n \in {"1", "2", "3"}}
                          \cup {<<d, n>> : d \in {"6", "7"}, n \in {"1", "2", "3", "4", "5", "6"}}
           DomainName(d) == IF d \in listed THEN <<"#">> \o d
                            ELSE <<"D", "o", "m", "a", "i", "n", " ">> \o d
           SubdomainName(d, s) ==
             IF Len(d) = 1 /\ Len(s) = 1 /\ <<d[1], s[1]>> \in sublisted
             THEN <<"#">> \o d \o <<".">> \o s
             ELSE <<"S", "u", "b", "d", "o", "m", "a", "i", "n", " ">> \o d \o <<".">> \o s
       IN /\ Cardinality(Of("domain")) = Cardinality(ids)
          /\ \A d \in ids :
               \E i \in Of("domain") :
                 /\ facts[i].domain = d
                 /\ facts[i].name = escape_prolog_string(DomainName(d))
          /\ Cardinality(Of("subdomain")) = Cardinality(keys)
          /\ \A k \in keys :
               \E i \in Of("subdomain") :
                 /\ facts[i].domain = k[1] /\ facts[i].subdomain = k[2]
                 /\ facts[i].name = escape_prolog_string(SubdomainName(k[1], k[2]))

\* facts were extracted from an inventory with two subdomains of domain 1
\* and the subdomain 9.1, which the catalogs do not list
C25_Witness ==
  /\ Extracted /\ AllMappings /\ pc = "InitializeProlog"
  /\ {KeyOrder[1], KeyOrder[3], KeyOrder[7]} \subseteq {e.key : e \in Range(ctx.analysis)}
  /\ Cardinality({i \in 1..Len(ctx.prolog_facts) : ctx.prolog_facts[i].pred = "domain"}) = 2
  /\ Cardinality({i \in 1..Len(ctx.prolog_facts) : ctx.prolog_facts[i].pred = "subdomain"}) = 3

\* C26: fact extraction is all-or-nothing: when an entry of the inventory
\* fails (its value is not a mapping), the extraction state leaves the stored
\* facts exactly as they were and adds exactly one extraction message to the
\* error list.
C26_AllOrNothing ==
  [][(stage = "heuristic" /\ pc = "GeneratePrologFacts" /\ ~AllMappings /\ executed' # executed)
       => /\ ctx'.prolog_facts = ctx.prolog_facts
          /\ Len(ctx'.errors) = Len(ctx.errors) + 1
          /\ Len(SelectSeq(ctx'.errors, LAMBDA m : m = MsgFactsFailed))
               = Len(SelectSeq(ctx.errors, LAMBDA m : m = MsgFactsFailed)) + 1]_vars

\* C27: the facts the rule engine evaluates in a run are exactly the facts
\* extracted from that run's inventory: in the second of two runs of one
\* process the engine holds the second run's facts and no other, and the
\* total the metrics report is the number of risks of the second inventory.
C27_EngineHoldsThisRunsFacts ==
  (stage = "heuristic" /\ ctx.prolog # Null)
    => /\ ctx.prolog.value = ctx.prolog_facts
       /\ ("ExecuteHeuristicAnalysis" \in Range(executed) /\ WellFormedKey(ctx.analysis[1].key))
            => ctx.heuristic.counting.total_risks \in {Null, Some(Len(ctx.analysis[1].risks))}

\* C28: the high_risk_fragmentation alert is true exactly when at least 4
\* distinct domains have a high-severity risk and there are at least 6
\* high-severity risks in all, and its value is the number of distinct
\* domains with a high-severity risk (both counted on the extracted facts),
\* whenever its queries did not fail.
C28_HighRiskFragmentation ==
  Analysed
    => LET facts == ctx.prolog_facts
           high == {i \in 1..Len(facts) : facts[i].pred = "risk" /\ facts[i].severity = "high"}
           with_high == {facts[i].id.domain : i \in high}
           alert == ctx.heuristic.patterns.alerts["high_risk_fragmentation"]
       IN alert # Null
            => /\ alert.value.alert = (Cardinality(with_high) >= 4 /\ Cardinality(high) >= 6)
               /\ alert.value.value = Cardinality(with_high)

\* the alert is raised for six high-severity risks spread over four domains
C28_Witness ==
  /\ Analysed
  /\ HighRiskFacts(<<"1">>) = 2 /\ HighRiskFacts(<<"2">>) = 2
  /\ HighRiskFacts(<<"3">>) = 1 /\ HighRiskFacts(<<"9">>) = 1
  /\ ctx.heuristic.patterns.alerts["high_risk_fragmentation"] = Some([alert |-> TRUE, value |-> 4])

\* C29: every risk is counted in exactly one class of each partition: when
\* the total and the three counts of a partition are there (their queries
\* did not fail), the by_severity counts sum to total_risks, and so do the
\* by_entity, the by_intent and the by_timing counts; when by_domain holds a
\* count for every domain of the extracted facts, these sum to total_risks.
C29_PartitionsSumToTotal ==
  Analysed
    => LET counting == ctx.heuristic.counting
           total == counting.total_risks
           Adds(part) ==
             (\A v \in DOMAIN part : part[v] # Null)
               => LET RECURSIVE Sum(_)
                      Sum(S) == IF S = {} THEN 0
                                ELSE LET v == CHOOSE x \in S : TRUE
                                     IN part[v].value + Sum(S \ {v})
                  IN Sum(DOMAIN part) = total.value
       IN total # Null
            => /\ \A name \in {"by_severity", "by_entity", "by_intent", "by_timing"} :
                    /\ Cardinality(DOMAIN counting[name]) = 3
                    /\ Adds(counting[name])
               /\ (DOMAIN counting.by_domain.value
                     = {f.domain : f \in {g \in Range(ctx.prolog_facts) : g.pred = "domain"}})
                    => Adds(counting.by_domain.value)

\* the counts of an inventory of three domains with five risks of three
\* severities, flat, nested and without fields, none of the queries failing
C29_Witness ==
  /\ Analysed
  /\ ctx.heuristic.counting.total_risks = Some(5)
  /\ ctx.heuristic.counting.by_severity = [low |-> Some(0), medium |-> Some(4), high |-> Some(1)]
  /\ ctx.heuristic.counting.by_entity = [ai |-> Some(1), human |-> Some(2), other |-> Some(2)]
  /\ Cardinality(DOMAIN ctx.heuristic.counting.by_domain.value) = 3
  /\ \A d \in DOMAIN ctx.heuristic.counting.by_domain.value :
       ctx.heuristic.counting.by_domain.value[d] \in {Some(1), Some(2)}

\* C30: the heuristic result is set at once from the four sections: the
\* heuristic value of the run context is its initial empty value or holds
\* exactly the sections executive_summary, counting, patterns and context,
\* it is empty until the queries have run, and every persisted
\* heuristic-analysis artifact holds the four sections.
C30_HeuristicResultIsWhole ==
  LET Sections == {"executive_summary", "counting", "patterns", "context"}
  IN stage = "heuristic"
       => /\ ctx.heuristic = EmptyDict \/ DOMAIN ctx.heuristic = Sections
          /\ "ExecuteHeuristicAnalysis" \notin Range(executed) => ctx.heuristic = EmptyDict
          /\ \A p \in DOMAIN files :
               p[1] = ArtifactKind("heuristic") => DOMAIN files[p].heuristic = Sections

\* a run has persisted its artifact, with a metric that failed among the
\* four sections
C30_Witness ==
  /\ stage = "heuristic" /\ pc = "end"
  /\ \E p \in DOMAIN files :
       /\ p[1] = ArtifactKind("heuristic")
       /\ files[p].heuristic = ctx.heuristic
       /\ files[p].heuristic.counting.total_risks = Null
       /\ files[p].heuristic.context # EmptyDict

\* C31: the heuristic result has a fixed field set for every inventory: the
\* 18 pattern names in their four buckets, the 8 alerts, the entries
\* most_critical and most_critical_in_top_domain of the subdomain analysis,
\* the 3 distribution metrics and the 5 context metrics are present in
\* every run, with a value or null.
C31_FixedFieldSet ==
  Analysed
    => LET patterns == ctx.heuristic.patterns
       IN /\ \A bucket \in DOMAIN PatternNames : DOMAIN patterns[bucket] = PatternNames[bucket]
          /\ DOMAIN patterns.alerts
               = ShareAlerts \cup {"intentional_threats", "high_risk_fragmentation"}
          /\ DOMAIN patterns.subdomain_analysis = {"most_critical", "most_critical_in_top_domain"}
          /\ DOMAIN patterns.distribution_metrics
               = {"ai_predeployment_percentage", "high_intentional_percentage", "ai_human_ratio"}
          /\ DOMAIN ctx.heuristic.context
               = {"risk_profile_comparison", "dominant_pattern", "fully_defined_causality_percentage",
                  "domain_coverage_percentage", "subdomain_coverage_percentage"}

\* C32: the run metadata a stage hands forward carries that stage's
\* current-step and next-step labels: the metadata the causality, the
\* heuristic and the report stage of an orchestrated run work on hold the
\* labels of the stage before.
C32_LabelsHandedForward ==
  (Orchestrated /\ stage \in {"causality", "heuristic", "report"})
    => LET m == ctx.metadata
       IN /\ {"analysis_current_step", "analysis_next_step"} \subseteq DOMAIN m
          /\ <<m["analysis_current_step"], m["analysis_next_step"]>> =
               CASE stage = "causality" -> <<"domain_evaluation", "causality_evaluation">>
                 [] stage = "heuristic" -> <<"causality_evaluation", "heuristic_evaluation">>
                 [] stage = "report" -> <<"heuristic_evaluation", "report_generation">>

\* C33: when the generated payload of the domain or the causality stage
\* fails the required-field checks, a message is recorded and the result is
\* discarded: the step leaves the inventory of the run context as it was,
\* the inventory stays the one the stage was given, and that is the
\* inventory of the artifact Persist writes.
C33_InvalidPayloadDiscarded ==
  LET Rejected == \/ stage = "domain" /\ MsgDomainValidation \in Range(ctx.errors)
                  \/ stage = "causality" /\ MsgConversion \in Range(ctx.errors)
      Given == CASE stage = "domain" -> InitialDomainState.analysis
                 [] stage = "causality" /\ Orchestrated -> orch["domain_state"].analysis
                 [] OTHER -> seed.analysis
  IN Rejected
       => /\ llm_calls[stage] = 1
          /\ ctx.analysis = Given
          /\ \A p \in DOMAIN files : p[1] = ArtifactKind(stage) => files[p].analysis = Given

\* a causality stage seeded with the domain stage's inventory has rejected
\* the service's answer and persisted its artifact
C33_Witness ==
  /\ stage = "causality" /\ pc = "end"
  /\ MsgConversion \in Range(ctx.errors)
  /\ ctx.analysis = "domain_inventory"
  /\ \E p \in DOMAIN files :
       /\ p[1] = ArtifactKind("causality")
       /\ files[p].analysis = "domain_inventory"
       /\ MsgConversion \in Range(files[p].metadata["errors"])

\* C34: in an orchestrated run the inventory the heuristic stage works on is
\* the causality stage's final inventory, and neither the heuristic nor the
\* report stage modifies it: at every node of the two stages the inventory
\* of the context, the inventory of the heuristic artifact and the
\* inventory held when the report is rendered are the inventory the
\* causality stage ended with and persisted.
C34_InventoryHandedOnUnchanged ==
  (Orchestrated /\ stage \in {"heuristic", "report"})
    => LET final == orch["causality_state"].analysis
       IN /\ ctx.analysis = final
          /\ \A p \in DOMAIN files :
               p[1] \in {ArtifactKind("causality"), ArtifactKind("heuristic")}
                 => files[p].analysis = final
          /\ "heuristic_state" \in DOMAIN orch => orch["heuristic_state"].analysis = final

\* the report of an orchestrated run has been rendered from the nested
\* inventory, after the heuristic artifact was written
C34_Witness ==
  /\ Orchestrated /\ stage = "report" /\ "GenerateHTMLReport" \in Range(executed)
  /\ reports # {}
  /\ ctx.analysis = "causality_inventory"
  /\ \E p \in DOMAIN files : p[1] = ArtifactKind("heuristic")

\* C35: when the domain stage's Load fails (the input file is missing or is
\* not JSON), no run identifier is minted, Validate and Analyze record each
\* its own message and the generation service is not called, Persist writes
\* no artifact and records the missing run identifier, no node raises, and
\* the stage ends with a non-empty error list.
C35_FailedLoadRunsThrough ==
  (stage = "domain" /\ file.status \in {"missing", "invalid_json"} /\ "load_file" \in Range(executed))
    => LET done == Range(executed)
           errs == Range(ctx.errors)
       IN /\ GetRunId(ctx.metadata) = NoRunId
          /\ pc # "raised"
          /\ errs \cap {MsgFileNotFound, MsgInvalidJson}
               = {IF file.status = "missing" THEN MsgFileNotFound ELSE MsgInvalidJson}
          /\ "validate" \in done => MsgMissingQuestionnaire \in errs
          /\ "analyze" \in done => MsgNoQuestionnaire \in errs
          /\ llm_calls["domain"] = 0
          /\ "save" \in done => MsgDomainNoRunId \in errs
          /\ files = [p \in {} |-> NoneVal]
          /\ pc = "end" => done = Range(DomainNodes) /\ ctx.errors # <<>>

\* a domain stage has run its four nodes on a file that is not JSON
C35_Witness ==
  /\ stage = "domain" /\ pc = "end" /\ file.status = "invalid_json"
  /\ executed = DomainNodes
  /\ {MsgInvalidJson, MsgMissingQuestionnaire, MsgNoQuestionnaire, MsgDomainNoRunId}
       \subseteq Range(ctx.errors)

\* C36: whenever the domain stage ends with an empty error list, every risk
\* of every entry of its inventory has a non-empty title, explanation and
\* mitigation and a severity that is low, medium or high.
C36_RisksAreValidated ==
  (stage = "domain" /\ pc = "end" /\ ctx.errors = <<>>)
    => \A i \in 1..Len(ctx.analysis) :
         \A j \in 1..Len(ctx.analysis[i].risks) :
           LET risk == ctx.analysis[i].risks[j]
           IN /\ risk["title"] # <<>>
              /\ risk["explanation"] # <<>>
              /\ risk["mitigation"] # <<>>
              /\ risk["severity"] \in SeverityLiteral

\* a domain stage has ended without errors on an answer with two risks
C36_Witness ==
  /\ stage = "domain" /\ pc = "end" /\ ctx.errors = <<>>
  /\ "analyze" \in Range(executed) /\ llm_calls["domain"] = 1
  /\ Len(ctx.analysis) = 1 /\ Len(ctx.analysis[1].risks) = 2
  /\ ctx.analysis[1].risks[1]["title"] = <<"t">>

\* the value a risk gives for a dimension of its causality: nested under
\* causality.<dimension>.value, else flat on the risk, else other
GivenDimension(risk, dimension) ==
  LET causality == Get(risk, "causality", EmptyDict)
  IN IF dimension \in DOMAIN causality /\ "value" \in DOMAIN causality[dimension]
     THEN causality[dimension]["value"]
     ELSE Get(risk, dimension, "other")

\* the facts of the k-th risk of an entry, in the order of the fact list
FactsOfRisk(key, k) ==
  LET parts == split(key, ".")
  IN SelectSeq(ctx.prolog_facts,
               LAMBDA f : /\ f.pred \in {"risk", "causality_entity", "causality_intent", "causality_timing"}
                          /\ f.id = [domain |-> parts[1], subdomain |-> parts[2], risk_id |-> k])

\* C37: fact extraction yields the same facts for a risk whether its entity,
\* intent and timing are given nested (causality.<dimension>.value) or flat
\* on the risk: each causality fact carries the value the risk gives for its
\* dimension, other when the risk gives none, and the risk fact carries the
\* risk's severity, medium when it has none.
C37_NestedAndFlatAlike ==
  (Extracted /\ AllMappings)
    => \A e \in 1..Len(ctx.analysis) :
         WellFormedKey(ctx.analysis[e].key)
           => \A k \in 1..Len(ctx.analysis[e].risks) :
                LET risk == ctx.analysis[e].risks[k]
                    mine == FactsOfRisk(ctx.analysis[e].key, k)
                IN /\ [i \in 1..Len(mine) |-> mine[i].pred]
                        = <<"risk", "causality_entity", "causality_intent", "causality_timing">>
                   /\ mine[1].severity = Get(risk, "severity", "medium")
                   /\ mine[2].value = GivenDimension(risk, "entity")
                   /\ mine[3].value = GivenDimension(risk, "intent")
                   /\ mine[4].value = GivenDimension(risk, "timing")
====
